---- MODULE Spec2Model ----
(***************************************************************************)
(* ConcurrentStore (src/store/memory-store.js): the in-memory index of     *)
(* chats, messages, contacts and group metadata, its eviction policy, the  *)
(* history-sync controller with its backup, the atomic snapshot writer and *)
(* the write serializer.  Asynchronous functions are modelled as tasks     *)
(* whose steps are the code between two awaits; the steps of different     *)
(* tasks interleave.                                                       *)
(***************************************************************************)
EXTENDS Integers, Sequences, FiniteSets, TLC

(***************************************************************************)
(* Bounds of the model.                                                    *)
(***************************************************************************)
MaxHist == 2
MaxEvents == 4
MaxNow == 30000

HistIds == 1..MaxHist

(***************************************************************************)
(* Program constants.                                                      *)
(***************************************************************************)
maxMessagesPerChat == 3
ManyChats == 10
ManyMessages == 100
BigUpsert == 100
MinFileSize == 10
SyncQuietMs == 30000
SlowBatchMs == 5000
OnDemandSyncType == 6
DoneProgress == 100

StoreFile == "baileys_store.json"
BackupFile == "baileys_store.json.backup"
FileLock == "file"

NoTime == -1
NoTs == -1

(***************************************************************************)
(* Small helpers on functions used as JavaScript Maps and objects.         *)
(***************************************************************************)
EmptyMap == << >>

MapSet(m, k, v) == [x \in DOMAIN m \cup {k} |-> IF x = k THEN v ELSE m[x]]

MapDelete(m, k) == [x \in DOMAIN m \ {k} |-> m[x]]

\* { ...a, ...b }: every field of b overrides the field of a
Spread(a, b) == [f \in DOMAIN a \cup DOMAIN b |-> IF f \in DOMAIN b THEN b[f] ELSE a[f]]

RECURSIVE SeqSum(_)
SeqSum(s) == IF s = << >> THEN 0 ELSE Head(s) + SeqSum(Tail(s))

RECURSIVE SetSum(_, _)
SetSum(S, f) ==
    IF S = {} THEN 0
    ELSE LET x == CHOOSE y \in S : TRUE IN Len(f[x]) + SetSum(S \ {x}, f)

(***************************************************************************)
(* jidNormalizedUser of the transport library: drops the device part of a  *)
(* user id and yields the empty string for an id it cannot decode.         *)
(***************************************************************************)
Jids == {"A", "B", "C", "D"}

jidNormalizedUser(jid) ==
    CASE jid \in Jids -> jid
      [] jid = "A:1" -> "A"
      [] jid = "B:1" -> "B"
      [] OTHER -> ""

(***************************************************************************)
(* A per-chat message Map is a sequence of entries in insertion order;     *)
(* an entry is [id, ts, v, timestamp, indexed]: the message id, its        *)
(* messageTimestamp (NoTs when missing), its payload, and the two fields   *)
(* the store adds.                                                         *)
(***************************************************************************)
MsgIndex(seq, id) ==
    IF \E i \in 1..Len(seq) : seq[i].id = id
    THEN CHOOSE i \in 1..Len(seq) : seq[i].id = id
    ELSE 0

MsgHas(seq, id) == MsgIndex(seq, id) # 0

\* Map.set: an existing key keeps its place, a new key goes last
MsgSet(seq, e) ==
    IF MsgHas(seq, e.id)
    THEN [seq EXCEPT ![MsgIndex(seq, e.id)] = e]
    ELSE Append(seq, e)


\* (a.messageTimestamp || 0)
TsKey(e) == IF e.ts = NoTs THEN 0 ELSE e.ts

\* Array.prototype.sort with (a, b) => key(a) - key(b): a stable ascending sort
RECURSIVE InsertSorted(_, _)
InsertSorted(sorted, e) ==
    IF sorted = << >> THEN << e >>
    ELSE IF TsKey(e) < TsKey(Head(sorted))
         THEN << e >> \o sorted
         ELSE << Head(sorted) >> \o InsertSorted(Tail(sorted), e)

\* a faulty sort that leaves the entries in insertion order
SortInsertionOrder(seq) == seq

RECURSIVE SortByTimestamp(_)
SortByTimestamp(seq) ==
    IF seq = << >> THEN << >>
    ELSE InsertSorted(SortByTimestamp(SubSeq(seq, 1, Len(seq) - 1)), seq[Len(seq)])

RECURSIVE DeleteIds(_, _)
DeleteIds(seq, ids) ==
    IF seq = << >> THEN << >>
    ELSE IF Head(seq).id \in ids
         THEN DeleteIds(Tail(seq), ids)
         ELSE << Head(seq) >> \o DeleteIds(Tail(seq), ids)

\* a faulty limit that deletes nothing
ApplyLimitNone(seq) == seq

\* the size check, the sort, the slice of the oldest excess and their deletion
ApplyLimit(seq) ==
    IF Len(seq) > maxMessagesPerChat
    THEN LET sortedMessages == SortByTimestamp(seq)
             toDelete == SubSeq(sortedMessages, 1, Len(seq) - maxMessagesPerChat)
         IN DeleteIds(seq, {toDelete[i].id : i \in 1..Len(toDelete)})
    ELSE seq


(***************************************************************************)
(* State.                                                                  *)
(*   chats, contacts, groupMetadata: key -> object (a function from the    *)
(*     object's field names to values); messages: chat id -> message Map.  *)
(*   backupData: the four backup Maps; aliased: the chat ids whose object  *)
(*     in backupData.chats is the very object held by chats (new Map(m)    *)
(*     copies the Map, not the objects in it).                             *)
(*   files: path -> content; tmp: the temporary files written by           *)
(*     writeToFileInternal, by target path and Date.now() stamp.           *)
(*   wtf: the writeToFile call that passed the isWriting guard; iw: the    *)
(*     writeToFileInternal executions, 0 for the one of writeToFile and h  *)
(*     for the one of createBackup in history task h; immediates: the      *)
(*     setImmediate callbacks scheduled for pending paths.                 *)
(*   hist: the processHistorySet calls; upq: the continuations of          *)
(*     processBatch after each addMessage; rd: the readFromFile call.      *)
(*   now: Date.now(), in ms since construction; budget: external events    *)
(*     still to come; faults: file-system failures still to come;          *)
(*     autoSaveTimer: whether the auto-save interval is set.               *)
(*   backupTaken, syncPre, reqs, ingested: history variables (the values   *)
(*     at the moment the backup was taken / the sync started, the          *)
(*     writeToFile requests recorded as pending during the write in        *)
(*     flight, and the messages handed to the store so far, as             *)
(*     [jid, id, ts]).                                                     *)
(***************************************************************************)
VARIABLES chats, messages, contacts, groupMetadata, stats,
          isProcessingHistory, syncStartTime, hasInitialData,
          backupData, aliased,
          writeLocks, pendingWrites, isWriting, wtf, immediates,
          files, tmp, iw,
          hist, upq, rd,
          now, budget, faults, autoSaveTimer,
          backupTaken, syncPre, reqs, ingested

storeVars == << chats, messages, contacts, groupMetadata, stats >>
syncVars == << isProcessingHistory, syncStartTime, hasInitialData >>
backupVars == << backupData, aliased, backupTaken >>
serVars == << writeLocks, pendingWrites, isWriting, wtf, immediates, reqs >>
fsVars == << files, tmp, iw >>
taskVars == << hist, upq, rd >>
vars == << chats, messages, contacts, groupMetadata, stats,
           isProcessingHistory, syncStartTime, hasInitialData,
           backupData, aliased,
           writeLocks, pendingWrites, isWriting, wtf, immediates,
           files, tmp, iw,
           hist, upq, rd,
           now, budget, faults, autoSaveTimer,
           backupTaken, syncPre, reqs, ingested >>

EmptyData == [chats |-> EmptyMap, messages |-> EmptyMap,
              contacts |-> EmptyMap, groupMetadata |-> EmptyMap]

\* the four live mappings as one value
Live == [chats |-> chats, messages |-> messages,
         contacts |-> contacts, groupMetadata |-> groupMetadata]

(***************************************************************************)
(* Store operations, as functions of the values they read.                 *)
(***************************************************************************)
HasValidDataOf(cs, ms, ct) ==
    Cardinality(DOMAIN cs) > 0 \/ Cardinality(DOMAIN ms) > 0 \/ Cardinality(DOMAIN ct) > 0

hasValidData == HasValidDataOf(chats, messages, contacts)

hasBackupData ==
    \/ Cardinality(DOMAIN backupData.chats) > 0
    \/ Cardinality(DOMAIN backupData.messages) > 0
    \/ Cardinality(DOMAIN backupData.contacts) > 0

UpdateStatsOf(cs, ms, ct) ==
    [totalChats |-> Cardinality(DOMAIN cs),
     totalContacts |-> Cardinality(DOMAIN ct),
     totalMessages |-> SetSum(DOMAIN ms, ms)]

\* { ...message, timestamp: Date.now(), indexed: true }
Entry(msg) ==
    [id |-> msg.id, ts |-> msg.ts, v |-> msg.v, timestamp |-> now, indexed |-> TRUE]

\* addMessage(jid, message) on the messages mapping
AddMessageSkips(message) == message.hsn

AddMessageOf(ms, jid, message) ==
    IF AddMessageSkips(message) THEN ms
    ELSE LET normalizedJid == jidNormalizedUser(jid)
             chatMessages == IF normalizedJid \in DOMAIN ms THEN ms[normalizedJid] ELSE << >>
         IN MapSet(ms, normalizedJid, ApplyLimit(MsgSet(chatMessages, Entry(message))))

\* the members of a set of indices in increasing order
RECURSIVE InOrder(_)
InOrder(S) ==
    IF S = {} THEN << >>
    ELSE LET i == CHOOSE x \in S : \A y \in S : x <= y
         IN << i >> \o InOrder(S \ {i})

\* the loop of processChatMessages(jid, chatMessages): a message whose id the
\* chat already holds is left as it is, the others are set in order
AddNewMessages(existingMessages, chatMessages) ==
    LET fresh == {i \in 1..Len(chatMessages) :
                     /\ ~ MsgHas(existingMessages, chatMessages[i].id)
                     /\ \A k \in 1..(i - 1) : chatMessages[k].id # chatMessages[i].id}
        order == InOrder(fresh)
    IN existingMessages \o [n \in 1..Len(order) |-> Entry(chatMessages[order[n]])]

ProcessChatMessagesOf(ms, jid, chatMessages) ==
    LET existingMessages == IF jid \in DOMAIN ms THEN ms[jid] ELSE << >>
    IN MapSet(ms, jid, ApplyLimit(AddNewMessages(existingMessages, chatMessages)))

\* the grouping loop of processMessagesOptimized: groups in order of first
\* appearance; a message without a key is skipped
GroupByChat(newMessages) ==
    LET HasKey(m) == ~ m.bad
        keyed == SelectSeq(newMessages, HasKey)
        JidAt(i) == jidNormalizedUser(keyed[i].jid)
        firsts == {i \in 1..Len(keyed) : \A k \in 1..(i - 1) : JidAt(k) # JidAt(i)}
        order == InOrder(firsts)
    IN [g \in 1..Len(order) |->
          LET OfChat(m) == jidNormalizedUser(m.jid) = JidAt(order[g])
          IN [jid |-> JidAt(order[g]), msgs |-> SelectSeq(keyed, OfChat)]]

\* processChatsOptimized: a chat is added only when its id is new; an element
\* without an id property to read (null) throws and ends the loop
RECURSIVE ProcessChatsOf(_, _)
ProcessChatsOf(cs, newChats) ==
    IF newChats = << >> THEN [chats |-> cs, threw |-> FALSE]
    ELSE LET chat == Head(newChats)
         IN IF chat.bad THEN [chats |-> cs, threw |-> TRUE]
            ELSE ProcessChatsOf(IF chat.id \in DOMAIN cs THEN cs
                                ELSE MapSet(cs, chat.id,
                                            Spread(chat.fields, [syncedAt |-> now])),
                                Tail(newChats))

\* processContactsOptimized: the contact replaces the stored one; an element
\* that throws is skipped
RECURSIVE ProcessContactsOf(_, _)
ProcessContactsOf(ct, newContacts) ==
    IF newContacts = << >> THEN ct
    ELSE LET contact == Head(newContacts)
         IN ProcessContactsOf(IF contact.bad THEN ct
                              ELSE MapSet(ct, jidNormalizedUser(contact.id),
                                          Spread(contact.fields, [lastUpdated |-> now])),
                              Tail(newContacts))

\* processContactsUpsert: the contact is merged over the stored one; for an
\* element without an id property to read (null) the catch block, which
\* logs contact.id, throws in its turn and ends the loop
RECURSIVE ProcessContactsUpsertOf(_, _)
ProcessContactsUpsertOf(ct, newContacts) ==
    IF newContacts = << >> THEN ct
    ELSE LET contact == Head(newContacts)
             jid == jidNormalizedUser(contact.id)
             existing == IF jid \in DOMAIN ct THEN ct[jid] ELSE EmptyMap
         IN IF contact.bad THEN ct
            ELSE ProcessContactsUpsertOf(MapSet(ct, jid,
                                                Spread(Spread(existing, contact.fields),
                                                       [lastUpdated |-> now])),
                                         Tail(newContacts))

\* a faulty update that assigns the unread count as given
UpdateChatFieldsAsGiven(existing, update) == update

\* the object updateChat assigns over the existing chat
UpdateChatFields(existing, update) ==
    IF "unreadCount" \in DOMAIN update /\ update.unreadCount > 0
    THEN [update EXCEPT !.unreadCount =
             (IF "unreadCount" \in DOMAIN existing THEN existing.unreadCount ELSE 0) + @]
    ELSE update

\* Object.assign(existing, fields) reaches the backup through a shared object
AssignInBackup(id, chat) ==
    IF id \in aliased
    THEN [backupData EXCEPT !.chats = MapSet(@, id, chat)]
    ELSE backupData


(***************************************************************************)
(* Files.  A content is [kind, data]: "absent"; "doc", a complete          *)
(* serialized snapshot; "empty", a file opened for writing and not yet     *)
(* written; "partial", the leftover of a write that failed midway; "tiny", *)
(* "blank", "junk", "invalid" and "badmeta", files found on disk that are  *)
(* too small, whitespace, unparsable, of the wrong structure, or of the    *)
(* right structure with a groupMetadata that is not a list of entries.     *)
(***************************************************************************)
Paths == {StoreFile, BackupFile}

NoFile == [kind |-> "absent", data |-> EmptyData]
EmptyFile == [kind |-> "empty", data |-> EmptyData]
PartialFile == [kind |-> "partial", data |-> EmptyData]
DocFile(data) == [kind |-> "doc", data |-> data]

\* stats.size of a content that exists
FileSize(content) ==
    CASE content.kind = "empty" -> 0
      [] content.kind = "tiny" -> 5
      [] OTHER -> 64

\* [...map.entries()]: the entries of a Map as a list of [key, value] pairs
RECURSIVE EntriesOf(_)
EntriesOf(m) ==
    IF DOMAIN m = {} THEN << >>
    ELSE LET k == CHOOSE x \in DOMAIN m : TRUE
         IN << << k, m[k] >> >> \o EntriesOf(MapDelete(m, k))

\* [...msgs.entries()] of the message Map of one chat
MsgEntriesOf(seq) == [i \in 1..Len(seq) |-> << seq[i].id, seq[i] >>]

\* a faulty serializer that leaves the group metadata out of the document
SerializeWithoutGroups(data) ==
    [chats |-> EntriesOf(data.chats),
     messages |-> [j \in DOMAIN data.messages |-> MsgEntriesOf(data.messages[j])],
     contacts |-> EntriesOf(data.contacts),
     groupMetadata |-> << >>]

\* serializeStoreData of four mappings: chats, contacts and groupMetadata as
\* lists of entries, messages as an object from jid to a list of entries
SerializeStoreDataOf(data) ==
    [chats |-> EntriesOf(data.chats),
     messages |-> [j \in DOMAIN data.messages |-> MsgEntriesOf(data.messages[j])],
     contacts |-> EntriesOf(data.contacts),
     groupMetadata |-> EntriesOf(data.groupMetadata)]

serializeStoreData == SerializeStoreDataOf(Live)

\* for (const [jid, value] of entries) map.set(jid, value)
RECURSIVE SetEntries(_, _)
SetEntries(m, entries) ==
    IF entries = << >> THEN m
    ELSE SetEntries(MapSet(m, Head(entries)[1], Head(entries)[2]), Tail(entries))

\* new Map(msgs) of a list of message entries
RECURSIVE NewMsgMap(_, _)
NewMsgMap(seq, entries) ==
    IF entries = << >> THEN seq
    ELSE NewMsgMap(MsgSet(seq, Head(entries)[2]), Tail(entries))

\* loadStoreData(data) on a store that holds the mappings cur: the entries of
\* the document are set over the Maps, the message Map of a chat is replaced
LoadStoreDataOf(cur, data) ==
    [chats |-> SetEntries(cur.chats, data.chats),
     messages |-> Spread(cur.messages,
                         [j \in DOMAIN data.messages |-> NewMsgMap(<< >>, data.messages[j])]),
     contacts |-> SetEntries(cur.contacts, data.contacts),
     groupMetadata |-> SetEntries(cur.groupMetadata, data.groupMetadata)]

\* `${file}.tmp.${Date.now()}`
TempName(file, stamp) == << file, stamp >>

Writers == 0..MaxHist

IwNone == [st |-> "none", file |-> StoreFile, stamp |-> 0, data |-> EmptyData, moved |-> FALSE]

\* the call of writeToFileInternal(file, data): the name of the temporary file
IwCall(file, data) ==
    [st |-> "open", file |-> file, stamp |-> now, data |-> data, moved |-> FALSE]

IwName(w) == TempName(iw[w].file, iw[w].stamp)

IwRunning(w) == iw[w].st \in {"open", "write", "stat", "rename", "unlink"}

(***************************************************************************)
(* writeToFileInternal, one action per file-system call.  Every call may   *)
(* fail (ok = FALSE); a failure goes to the catch block, which unlinks the *)
(* temporary file and rethrows.                                            *)
(***************************************************************************)
\* whether the writeToFile call awaited by owner has returned
WriteToFileReturned(owner) == wtf.st = "idle" \/ wtf.owner # owner

(***************************************************************************)
(* Run to completion: a continuation that waits for nothing outside the    *)
(* process (a promise that is already settled) runs before the next event, *)
(* timer or file-system completion is handled.  MicroPending says that     *)
(* such a continuation is queued.                                          *)
(***************************************************************************)
MicroPending ==
    \/ wtf.st \in {"locked", "serialized"}
    \/ wtf.st = "io" /\ iw[0].st \in {"ok", "err"}
    \/ upq # << >>
    \/ \E h \in HistIds :
          \/ hist[h].pc \in {"await", "caught", "fin_restored", "done"}
          \/ hist[h].pc = "backup" /\ iw[h].st \in {"new", "ok", "err"}
          \/ hist[h].pc \in {"inc_wait", "fin_wait"} /\ WriteToFileReturned(h)

Quiescent == ~ MicroPending

\* whether a continuation of the handler itself is queued while
\* processMessagesOptimized is still running: the rest of the catch block, of
\* finalizeSyncProcess, or of the writeToFile call it awaits
MainPending(h) ==
    \/ hist[h].pc \in {"caught", "fin_restored"}
    \/ /\ hist[h].pc \in {"inc_wait", "fin_wait"}
       /\ WriteToFileReturned(h) \/ (wtf.owner = h /\ wtf.st = "locked")

\* the microtask queue is first in, first out: once the catch block has run,
\* the continuations of the handler and of processMessagesOptimized take
\* turns, processMessagesOptimized first (ticks 2), then the handler (ticks 3)
MainTurn(h) == hist[h].groups = << >> \/ hist[h].ticks = 3

\* the handler moves on; the next turn is processMessagesOptimized's
Goto(h, pc) ==
    [hist EXCEPT ![h].pc = pc, ![h].ticks = IF @ = 3 THEN 2 ELSE @]

\* a file-system call completes; it fails when a failure is injected
Fault(ok) ==
    /\ Quiescent
    /\ ~ ok => faults > 0
    /\ faults' = IF ok THEN faults ELSE faults - 1

\* fs.writeFile, first half: the file is created or truncated
IwOpen(w, ok) ==
    /\ Fault(ok)
    /\ iw[w].st = "open"
    /\ IF ok
       THEN /\ tmp' = MapSet(tmp, IwName(w), EmptyFile)
            /\ iw' = [iw EXCEPT ![w].st = "write"]
       ELSE /\ tmp' = tmp
            /\ iw' = [iw EXCEPT ![w].st = "unlink"]
    /\ UNCHANGED << files, storeVars, syncVars, backupVars, serVars, taskVars,
                    now, budget, syncPre, autoSaveTimer, ingested >>

\* fs.writeFile, second half: the data is written through the open file,
\* which is the target itself once another writer has renamed it there
IwWrite(w, ok) ==
    /\ Fault(ok)
    /\ iw[w].st = "write"
    /\ LET content == IF ok THEN DocFile(iw[w].data) ELSE PartialFile
       IN /\ tmp' = IF IwName(w) \in DOMAIN tmp
                    THEN MapSet(tmp, IwName(w), content)
                    ELSE tmp
          /\ files' = IF iw[w].moved /\ IwName(w) \notin DOMAIN tmp
                      THEN [files EXCEPT ![iw[w].file] = content]
                      ELSE files
    /\ iw' = [iw EXCEPT ![w].st = IF ok THEN "stat" ELSE "unlink"]
    /\ UNCHANGED << storeVars, syncVars, backupVars, serVars, taskVars,
                    now, budget, syncPre, autoSaveTimer, ingested >>

\* fs.stat and the size check
IwStat(w, ok) ==
    /\ Fault(ok)
    /\ iw[w].st = "stat"
    /\ iw' = [iw EXCEPT ![w].st =
                 IF /\ ok
                    /\ IwName(w) \in DOMAIN tmp
                    /\ ~ (FileSize(tmp[IwName(w)]) < MinFileSize)
                 THEN "rename" ELSE "unlink"]
    /\ UNCHANGED << files, tmp, storeVars, syncVars, backupVars, serVars, taskVars,
                    now, budget, syncPre, autoSaveTimer, ingested >>

\* fs.rename: the temporary file atomically becomes the target
IwRename(w, ok) ==
    /\ Fault(ok)
    /\ iw[w].st = "rename"
    /\ IF ok /\ IwName(w) \in DOMAIN tmp
       THEN /\ files' = [files EXCEPT ![iw[w].file] = tmp[IwName(w)]]
            /\ tmp' = MapDelete(tmp, IwName(w))
            /\ iw' = [x \in Writers |->
                        IF x = w THEN [iw[x] EXCEPT !.st = "ok"]
                        ELSE IF iw[x].st = "write" /\ IwName(x) = IwName(w)
                             THEN [iw[x] EXCEPT !.moved = TRUE]
                             ELSE iw[x]]
       ELSE /\ files' = files
            /\ tmp' = tmp
            /\ iw' = [iw EXCEPT ![w].st = "unlink"]
    /\ UNCHANGED << storeVars, syncVars, backupVars, serVars, taskVars,
                    now, budget, syncPre, autoSaveTimer, ingested >>

\* the catch block: fs.unlink, its own failure ignored, and the rethrow
IwUnlink(w, ok) ==
    /\ Fault(ok)
    /\ iw[w].st = "unlink"
    /\ tmp' = IF ok THEN MapDelete(tmp, IwName(w)) ELSE tmp
    /\ iw' = [iw EXCEPT ![w].st = "err"]
    /\ UNCHANGED << files, storeVars, syncVars, backupVars, serVars, taskVars,
                    now, budget, syncPre, autoSaveTimer, ingested >>

(***************************************************************************)
(* writeToFile.  owner is the task that awaits the call: a history task,   *)
(* or 0 when nothing awaits it (the auto-save timer, setImmediate); errs   *)
(* is the number of store.error notifications the last call that ran has   *)
(* emitted.                                                                *)
(***************************************************************************)
WtfIdle == [st |-> "idle", file |-> StoreFile, owner |-> 0, data |-> EmptyData, errs |-> 0]

\* a faulty writeToFile that keeps every request made during a write in a
\* queue instead of a Set
WriteToFileCallQueued(owner, file, valid) ==
    IF isWriting
    THEN /\ pendingWrites' = Append(pendingWrites, file)
         /\ reqs' = reqs + 1
         /\ UNCHANGED << writeLocks, isWriting, wtf >>
    ELSE IF ~ valid
    THEN UNCHANGED << writeLocks, pendingWrites, isWriting, wtf, reqs >>
    ELSE /\ isWriting' = TRUE
         /\ reqs' = 0
         /\ writeLocks' = writeLocks \cup {FileLock}
         /\ wtf' = [st |-> IF FileLock \in writeLocks THEN "acquire" ELSE "locked",
                    file |-> file, owner |-> owner, data |-> EmptyData, errs |-> 0]
         /\ pendingWrites' = pendingWrites

\* the call up to its first await: recorded as pending, skipped, or started
\* (isWriting set, and the lock taken at once when it is free)

WriteToFileCall(owner, file, valid) ==
    IF isWriting
    THEN /\ pendingWrites' = IF \E i \in 1..Len(pendingWrites) : pendingWrites[i] = file
                             THEN pendingWrites
                             ELSE Append(pendingWrites, file)
         /\ reqs' = reqs + 1
         /\ UNCHANGED << writeLocks, isWriting, wtf >>
    ELSE IF ~ valid
    THEN UNCHANGED << writeLocks, pendingWrites, isWriting, wtf, reqs >>
    ELSE /\ isWriting' = TRUE
         /\ reqs' = 0
         /\ IF FileLock \in writeLocks
            THEN /\ writeLocks' = writeLocks
                 /\ wtf' = [st |-> "acquire", file |-> file, owner |-> owner, data |-> EmptyData, errs |-> 0]
            ELSE /\ writeLocks' = writeLocks \cup {FileLock}
                 /\ wtf' = [st |-> "locked", file |-> file, owner |-> owner, data |-> EmptyData, errs |-> 0]
         /\ pendingWrites' = pendingWrites

\* acquireWriteLock: a poll (a 10 ms timer) that finds the lock free takes it
WtfAcquire ==
    /\ Quiescent
    /\ wtf.st = "acquire"
    /\ FileLock \notin writeLocks
    /\ writeLocks' = writeLocks \cup {FileLock}
    /\ wtf' = [wtf EXCEPT !.st = "locked"]
    /\ UNCHANGED << pendingWrites, isWriting, immediates, reqs, storeVars, syncVars,
                    backupVars, fsVars, taskVars, now, budget, syncPre, faults, autoSaveTimer, ingested >>

\* const data = await this.serializeStoreData()
WtfSerialize ==
    /\ wtf.st = "locked"
    /\ wtf.owner \in HistIds => MainTurn(wtf.owner)
    /\ wtf' = [wtf EXCEPT !.st = "serialized", !.data = serializeStoreData]
    /\ hist' = IF wtf.owner \in HistIds THEN Goto(wtf.owner, hist[wtf.owner].pc) ELSE hist
    /\ UNCHANGED << writeLocks, pendingWrites, isWriting, immediates, reqs, storeVars,
                    syncVars, backupVars, fsVars, upq, rd, now, budget, syncPre, faults, autoSaveTimer, ingested >>

\* await this.writeToFileInternal(file, data)
WtfWrite ==
    /\ wtf.st = "serialized"
    /\ wtf' = [wtf EXCEPT !.st = "io"]
    /\ iw' = [iw EXCEPT ![0] = IwCall(wtf.file, wtf.data)]
    /\ UNCHANGED << writeLocks, pendingWrites, isWriting, immediates, reqs, storeVars,
                    syncVars, backupVars, files, tmp, taskVars, now, budget, syncPre, faults, autoSaveTimer, ingested >>

\* a faulty end of writeToFile that releases the serializer in the try
\* block, after the write, instead of in the finally block
WtfFinishInTry ==
    /\ wtf.st = "io"
    /\ iw[0].st \in {"ok", "err"}
    /\ isWriting' = (iw[0].st = "err")
    /\ writeLocks' = IF iw[0].st = "err" THEN writeLocks ELSE writeLocks \ {FileLock}
    /\ IF Len(pendingWrites) > 0 /\ iw[0].st = "ok"
       THEN /\ immediates' = Append(immediates, Head(pendingWrites))
            /\ pendingWrites' = Tail(pendingWrites)
       ELSE UNCHANGED << immediates, pendingWrites >>
    /\ wtf' = [WtfIdle EXCEPT !.errs = IF iw[0].st = "err" THEN 1 ELSE 0]
    /\ iw' = [iw EXCEPT ![0] = IwNone]
    /\ UNCHANGED << reqs, storeVars, syncVars, backupVars, files, tmp, taskVars,
                    now, budget, syncPre, faults, autoSaveTimer, ingested >>

\* the rest of the try block, or the catch block with its store.error, and
\* the finally block: the serializer is released and the first pending path
\* is dispatched
WtfFinish ==
    /\ wtf.st = "io"
    /\ iw[0].st \in {"ok", "err"}
    /\ isWriting' = FALSE
    /\ writeLocks' = writeLocks \ {FileLock}
    /\ IF Len(pendingWrites) > 0
       THEN /\ immediates' = Append(immediates, Head(pendingWrites))
            /\ pendingWrites' = Tail(pendingWrites)
       ELSE UNCHANGED << immediates, pendingWrites >>
    /\ wtf' = [WtfIdle EXCEPT !.errs = IF iw[0].st = "err" THEN 1 ELSE 0]
    /\ iw' = [iw EXCEPT ![0] = IwNone]
    /\ UNCHANGED << reqs, storeVars, syncVars, backupVars, files, tmp, taskVars,
                    now, budget, syncPre, faults, autoSaveTimer, ingested >>

\* setImmediate(() => this.writeToFile(nextFile))
RunImmediate ==
    /\ Quiescent
    /\ Len(immediates) > 0
    /\ WriteToFileCall(0, Head(immediates), hasValidData)
    /\ immediates' = Tail(immediates)
    /\ UNCHANGED << storeVars, syncVars, backupVars, fsVars, taskVars, now, budget, syncPre, faults, autoSaveTimer, ingested >>

(***************************************************************************)
(* The handlers bound to the event source, and the timers.  Each external  *)
(* event takes one unit of the budget.                                     *)
(***************************************************************************)
Event ==
    /\ Quiescent
    /\ budget > 0
    /\ budget' = budget - 1

\* Date.now() advances by d ms
ClockTick(d) ==
    /\ Quiescent
    /\ now + d <= MaxNow
    /\ now' = now + d
    /\ UNCHANGED << storeVars, syncVars, backupVars, serVars, fsVars, taskVars,
                    budget, syncPre, faults, autoSaveTimer, ingested >>

\* the auto-save timer: smartAutoSave
SmartAutoSave ==
    /\ Event
    /\ autoSaveTimer
    /\ IF /\ isProcessingHistory
          /\ syncStartTime # NoTime
          /\ now - syncStartTime < SyncQuietMs
       THEN UNCHANGED << writeLocks, pendingWrites, isWriting, wtf, reqs >>
       ELSE IF hasValidData
       THEN WriteToFileCall(0, StoreFile, TRUE)
       ELSE UNCHANGED << writeLocks, pendingWrites, isWriting, wtf, reqs >>
    /\ UNCHANGED << immediates, storeVars, syncVars, backupVars, fsVars, taskVars,
                    now, syncPre, faults, autoSaveTimer, ingested >>

\* cleanup: the auto-save interval is cleared and the store is written
Cleanup ==
    /\ Event
    /\ autoSaveTimer' = FALSE
    /\ IF hasValidData
       THEN WriteToFileCall(0, StoreFile, TRUE)
       ELSE UNCHANGED << writeLocks, pendingWrites, isWriting, wtf, reqs >>
    /\ UNCHANGED << immediates, storeVars, syncVars, backupVars, fsVars, taskVars,
                    now, syncPre, faults, ingested >>

\* upsertChat(chat): an existing chat object is assigned in place, a new one
\* is created and counted
UpsertChat(chat) ==
    /\ IF chat.id \in DOMAIN chats
       THEN LET merged == Spread(chats[chat.id], Spread(chat.fields, [lastUpdated |-> now]))
            IN /\ chats' = MapSet(chats, chat.id, merged)
               /\ backupData' = AssignInBackup(chat.id, merged)
               /\ stats' = stats
       ELSE /\ chats' = MapSet(chats, chat.id,
                               Spread(chat.fields, [createdAt |-> now, lastUpdated |-> now]))
            /\ backupData' = backupData
            /\ stats' = [stats EXCEPT !.totalChats = @ + 1]
    /\ UNCHANGED << messages, contacts, groupMetadata, aliased, backupTaken >>

\* chats.upsert with one chat: ignored while a history sync is processed
ChatsUpsert(chat) ==
    /\ Event
    /\ IF isProcessingHistory
       THEN UNCHANGED << storeVars, backupVars >>
       ELSE UpsertChat(chat)
    /\ UNCHANGED << syncVars, serVars, fsVars, taskVars, now, syncPre, faults, autoSaveTimer, ingested >>

\* chats.set with one chat
ChatsSet(chat) ==
    /\ Event
    /\ UpsertChat(chat)
    /\ UNCHANGED << syncVars, serVars, fsVars, taskVars, now, syncPre, faults, autoSaveTimer, ingested >>

\* chats.update with one update: updateChat
ChatsUpdate(update) ==
    /\ Event
    /\ IF update.id \in DOMAIN chats
       THEN LET existing == chats[update.id]
                merged == Spread(existing, Spread(UpdateChatFields(existing, update.fields),
                                                  [lastUpdated |-> now]))
            IN /\ chats' = MapSet(chats, update.id, merged)
               /\ backupData' = AssignInBackup(update.id, merged)
       ELSE UNCHANGED << chats, backupData >>
    /\ UNCHANGED << messages, contacts, groupMetadata, stats, aliased, backupTaken,
                    syncVars, serVars, fsVars, taskVars, now, syncPre, faults, autoSaveTimer, ingested >>

\* chats.delete: the chats and their messages are removed, stats recomputed
ChatsDelete(deletions) ==
    /\ Event
    /\ chats' = [j \in DOMAIN chats \ deletions |-> chats[j]]
    /\ messages' = [j \in DOMAIN messages \ deletions |-> messages[j]]
    /\ aliased' = aliased \ deletions
    /\ stats' = UpdateStatsOf(chats', messages', contacts)
    /\ UNCHANGED << contacts, groupMetadata, backupData, backupTaken,
                    syncVars, serVars, fsVars, taskVars, now, syncPre, faults, autoSaveTimer, ingested >>

\* contacts.upsert
ContactsUpsert(newContacts) ==
    /\ Event
    /\ contacts' = ProcessContactsUpsertOf(contacts, newContacts)
    /\ UNCHANGED << chats, messages, groupMetadata, stats, backupVars,
                    syncVars, serVars, fsVars, taskVars, now, syncPre, faults, autoSaveTimer, ingested >>

\* groups.update with one update: updateGroupMetadata
GroupsUpdate(update) ==
    /\ Event
    /\ groupMetadata' = MapSet(groupMetadata, update.id,
           Spread(Spread(IF update.id \in DOMAIN groupMetadata
                         THEN groupMetadata[update.id] ELSE EmptyMap, update.fields),
                  [lastUpdated |-> now]))
    /\ UNCHANGED << chats, messages, contacts, stats, backupVars,
                    syncVars, serVars, fsVars, taskVars, now, syncPre, faults, autoSaveTimer, ingested >>

\* the addMessage calls of processBatch, in the order of the batch: those of
\* the first half of the batch are made before those of the second half
RECURSIVE AddMessagesOf(_, _)
AddMessagesOf(ms, batch) ==
    IF batch = << >> THEN ms
    ELSE IF Len(batch) = 1 THEN AddMessageOf(ms, batch[1].jid, batch[1])
    ELSE LET half == Len(batch) \div 2
             first == AddMessagesOf(ms, SubSeq(batch, 1, half))
             rest == SubSeq(batch, half + 1, Len(batch))
         IN IF first = ms THEN AddMessagesOf(ms, rest) ELSE AddMessagesOf(first, rest)

RECURSIVE CountAdded(_)
CountAdded(batch) ==
    IF batch = << >> THEN 0
    ELSE (IF AddMessageSkips(Head(batch)) THEN 0 ELSE 1) + CountAdded(Tail(batch))

\* toNumber(msg.messageTimestamp)
toNumber(ts) == IF ts = NoTs THEN 0 ELSE ts

\* what follows each awaited addMessage of a 'notify' batch
NotifyContinuations(batch, type) ==
    IF type = "notify"
    THEN [i \in 1..Len(batch) |->
            [jid |-> jidNormalizedUser(batch[i].jid), ts |-> toNumber(batch[i].ts)]]
    ELSE << >>

\* a faulty handler that also drops a batch of exactly 100 messages
MessagesUpsertFrom100(newMessages, type) ==
    /\ Event
    /\ IF \/ isProcessingHistory /\ Len(newMessages) >= BigUpsert
          \/ \E i \in 1..Len(newMessages) : newMessages[i].bad
       THEN UNCHANGED << messages, stats, upq, ingested >>
       ELSE /\ messages' = AddMessagesOf(messages, newMessages)
            /\ ingested' = ingested \cup
                   {[jid |-> jidNormalizedUser(newMessages[i].jid), id |-> newMessages[i].id,
                     ts |-> newMessages[i].ts] :
                        i \in {k \in 1..Len(newMessages) : ~ AddMessageSkips(newMessages[k])}}
            /\ stats' = [stats EXCEPT !.totalMessages = @ + CountAdded(newMessages)]
            /\ upq' = upq \o NotifyContinuations(newMessages, type)
    /\ UNCHANGED << chats, contacts, groupMetadata, backupVars, syncVars, serVars,
                    fsVars, hist, rd, now, syncPre, faults, autoSaveTimer >>

\* messages.upsert: a large batch is dropped during a sync; a message without
\* a key makes the mapping of the batch throw before any message is added
MessagesUpsert(newMessages, type) ==
    /\ Event
    /\ IF \/ isProcessingHistory /\ Len(newMessages) > BigUpsert
          \/ \E i \in 1..Len(newMessages) : newMessages[i].bad
       THEN UNCHANGED << messages, stats, upq, ingested >>
       ELSE /\ messages' = AddMessagesOf(messages, newMessages)
            /\ ingested' = ingested \cup
                   {[jid |-> jidNormalizedUser(newMessages[i].jid), id |-> newMessages[i].id,
                     ts |-> newMessages[i].ts] :
                        i \in {k \in 1..Len(newMessages) : ~ AddMessageSkips(newMessages[k])}}
            /\ stats' = [stats EXCEPT !.totalMessages = @ + CountAdded(newMessages)]
            /\ upq' = upq \o NotifyContinuations(newMessages, type)
    /\ UNCHANGED << chats, contacts, groupMetadata, backupVars, syncVars, serVars,
                    fsVars, hist, rd, now, syncPre, faults, autoSaveTimer >>

\* a faulty processBatch that sets the chat without looking for it
UpsertContinueUnchecked ==
    /\ Len(upq) > 0
    /\ chats' = MapSet(chats, Head(upq).jid,
                       [id |-> Head(upq).jid, conversationTimestamp |-> Head(upq).ts,
                        unreadCount |-> 1, createdAt |-> now, lastUpdated |-> now])
    /\ stats' = [stats EXCEPT !.totalChats = @ + 1]
    /\ upq' = Tail(upq)
    /\ UNCHANGED << messages, contacts, groupMetadata, backupVars, syncVars, serVars,
                    fsVars, hist, rd, now, budget, syncPre, faults, autoSaveTimer, ingested >>

\* processBatch after an addMessage: a chat not yet known is created
UpsertContinue ==
    /\ Len(upq) > 0
    /\ IF Head(upq).jid \notin DOMAIN chats
       THEN /\ chats' = MapSet(chats, Head(upq).jid,
                   [id |-> Head(upq).jid, conversationTimestamp |-> Head(upq).ts,
                    unreadCount |-> 1, createdAt |-> now, lastUpdated |-> now])
            /\ stats' = [stats EXCEPT !.totalChats = @ + 1]
       ELSE UNCHANGED << chats, stats >>
    /\ upq' = Tail(upq)
    /\ UNCHANGED << messages, contacts, groupMetadata, backupVars, syncVars, serVars,
                    fsVars, hist, rd, now, budget, syncPre, faults, autoSaveTimer, ingested >>


(***************************************************************************)
(* History batches.  A batch is [chats, contacts, messages, isLatest,      *)
(* syncType, progress]; a task keeps the index of its batch in AllBatches. *)
(***************************************************************************)
Msg(jid, id, ts, v) == [jid |-> jid, id |-> id, ts |-> ts, v |-> v, hsn |-> FALSE, bad |-> FALSE]
ChatItem(id, unread) ==
    [bad |-> FALSE, id |-> id, fields |-> [id |-> id, unreadCount |-> unread]]
ContactItem(id, name) == [bad |-> FALSE, id |-> id, fields |-> [id |-> id, name |-> name]]
NullItem == [bad |-> TRUE, id |-> "", fields |-> [id |-> "", unreadCount |-> 0]]
Repeat(x, n) == [i \in 1..n |-> x]

Batch(cs, ct, ms, latest, type, progress) ==
    [chats |-> cs, contacts |-> ct, messages |-> ms,
     isLatest |-> latest, syncType |-> type, progress |-> progress]

AllBatches ==
    << \* 1: a small batch in the middle of a sync
       Batch(<< ChatItem("B", 0) >>, << ContactItem("B", 1) >>,
             << Msg("B", 1, 1, 1) >>, FALSE, 0, 50),
       \* 2: a small last batch
       Batch(<< ChatItem("B", 0) >>, << >>, << Msg("A", 3, 3, 1) >>, TRUE, 0, 100),
       \* 3: a last batch of 11 chats
       Batch(Repeat(ChatItem("B", 0), ManyChats + 1), << >>, << >>, TRUE, 0, 100),
       \* 4: a batch whose second chat is null
       Batch(<< ChatItem("B", 0), NullItem >>, << >>, << Msg("B", 1, 1, 1) >>, FALSE, 0, 50),
       \* 5: a last batch whose second chat is null
       Batch(<< ChatItem("B", 0), NullItem >>, << >>, << >>, TRUE, 0, 100),
       \* 6: on-demand history, marked last
       Batch(<< ChatItem("B", 0) >>, << >>, << Msg("B", 1, 1, 1) >>, TRUE, OnDemandSyncType, 100),
       \* 7: 11 chats, not marked last, progress 100
       Batch(Repeat(ChatItem("B", 0), ManyChats + 1), << >>, << >>, FALSE, 0, DoneProgress),
       \* 8: a last batch of 101 messages
       Batch(<< >>, << >>, Repeat(Msg("B", 2, 2, 1), ManyMessages + 1), TRUE, 0, 100),
       \* 9: a last batch of exactly 10 chats and 100 messages
       Batch(Repeat(ChatItem("B", 0), ManyChats), << >>,
             Repeat(Msg("B", 2, 2, 1), ManyMessages), TRUE, 0, 100),
       \* 10: a failing batch with messages of four chats
       Batch(<< NullItem >>, << >>,
             << Msg("A", 1, 1, 1), Msg("B", 1, 1, 1), Msg("C", 1, 1, 1), Msg("?", 1, 1, 1) >>,
             FALSE, 0, 50),
       \* 11: a batch of three newer messages for one chat
       Batch(<< >>, << >>, << Msg("B", 4, 4, 1), Msg("B", 5, 5, 1), Msg("B", 6, 6, 1) >>,
             FALSE, 0, 50),
       \* 12: a last batch that carries nothing
       Batch(<< >>, << >>, << >>, TRUE, 0, 100),
       \* 13: a failing last batch with messages of five chats
       Batch(<< NullItem >>, << >>,
             << Msg("A", 1, 1, 1), Msg("B", 1, 1, 1), Msg("C", 1, 1, 1), Msg("D", 1, 1, 1),
                Msg("?", 1, 1, 1) >>,
             TRUE, 0, 100),
       \* 14: a batch whose first chat and first contact are null and whose
       \* first message has no key
       Batch(<< NullItem, ChatItem("C", 0) >>, << NullItem, ContactItem("C", 1) >>,
             << [Msg("A", 2, 2, 1) EXCEPT !.bad = TRUE], Msg("A", 1, 1, 1) >>,
             FALSE, 0, 50) >>

HistIdle == [pc |-> "idle", batch |-> 1, threw |-> FALSE, groups |-> << >>, ticks |-> 0]

BatchOf(h) == AllBatches[hist[h].batch]

\* isLatest || progress >= 100
IsFinal(b) == b.isLatest \/ b.progress >= DoneProgress

\* a faulty condition that clears on every batch marked latest
ClearsFirstLatest(b) == b.isLatest

\* isLatest && (newChats.length > 10 || newMessages.length > 100)
ClearsFirst(b) ==
    b.isLatest /\ (Len(b.chats) > ManyChats \/ Len(b.messages) > ManyMessages)

\* restoreFromBackup: the live mappings become copies of the backup Maps,
\* which hold the same chat objects; nothing happens without backup data
RestoreFromBackup ==
    IF hasBackupData
    THEN /\ chats' = backupData.chats
         /\ contacts' = backupData.contacts
         /\ groupMetadata' = backupData.groupMetadata
         /\ messages' = backupData.messages
         /\ stats' = UpdateStatsOf(backupData.chats, backupData.messages, backupData.contacts)
         /\ aliased' = DOMAIN backupData.chats
    ELSE UNCHANGED << chats, contacts, groupMetadata, messages, stats, aliased >>

\* the messages of one chat handed to processChatMessages
IngestOf(jid, msgs) ==
    {[jid |-> jid, id |-> msgs[i].id, ts |-> msgs[i].ts] : i \in 1..Len(msgs)}

\* the try block of processHistorySet up to await Promise.all: the clear,
\* processChatsOptimized, processContactsOptimized, and of
\* processMessagesOptimized the grouping and the first chat
ProcessSync(h, idx) ==
    LET b == AllBatches[idx]
        cs0 == IF ClearsFirst(b) THEN EmptyMap ELSE chats
        ms0 == IF ClearsFirst(b) THEN EmptyMap ELSE messages
        r == ProcessChatsOf(cs0, b.chats)
        groups == GroupByChat(b.messages)
    IN /\ chats' = r.chats
       /\ messages' = IF groups = << >> THEN ms0
                      ELSE ProcessChatMessagesOf(ms0, groups[1].jid, groups[1].msgs)
       /\ contacts' = ProcessContactsOf(contacts, b.contacts)
       /\ aliased' = IF ClearsFirst(b) THEN {} ELSE aliased
       /\ ingested' = ingested \cup (IF groups = << >> THEN {}
                                     ELSE IngestOf(groups[1].jid, groups[1].msgs))
       /\ hist' = [hist EXCEPT ![h] =
                     [pc |-> "await", batch |-> idx, threw |-> r.threw,
                      groups |-> IF groups = << >> THEN << >> ELSE Tail(groups),
                      ticks |-> 0]]
       /\ UNCHANGED << groupMetadata, stats >>

\* a faulty processHistorySet that handles an on-demand batch as any other
HistStartAnyType(h, idx) ==
    /\ Event
    /\ hist[h].pc = "idle"
    /\ \A g \in HistIds : g < h => hist[g].pc # "idle"
    /\ IF ~ isProcessingHistory
       THEN /\ isProcessingHistory' = TRUE
            /\ syncStartTime' = now
            /\ hasInitialData' = hasValidData
            /\ syncPre' = Live
            /\ IF hasValidData
               THEN \* createBackup up to the await of serializeStoreData
                    /\ backupData' = Live
                    /\ aliased' = DOMAIN chats
                    /\ backupTaken' = Live
                    /\ iw' = [iw EXCEPT ![h] = [st |-> "new", file |-> BackupFile, stamp |-> 0,
                                                data |-> serializeStoreData, moved |-> FALSE]]
                    /\ hist' = [hist EXCEPT ![h] = [HistIdle EXCEPT !.pc = "backup", !.batch = idx]]
                    /\ UNCHANGED << storeVars, ingested >>
               ELSE /\ ProcessSync(h, idx)
                    /\ UNCHANGED << backupData, backupTaken, iw >>
       ELSE /\ ProcessSync(h, idx)
            /\ UNCHANGED << syncVars, backupData, backupTaken, iw, syncPre >>
    /\ UNCHANGED << serVars, files, tmp, upq, rd, now, faults, autoSaveTimer >>

\* messaging-history.set: processHistorySet up to its first await
HistStart(h, idx) ==
    /\ Event
    /\ hist[h].pc = "idle"
    /\ \A g \in HistIds : g < h => hist[g].pc # "idle"
    /\ IF AllBatches[idx].syncType = OnDemandSyncType
       THEN UNCHANGED << storeVars, syncVars, backupVars, iw, hist, syncPre, ingested >>
       ELSE IF ~ isProcessingHistory
       THEN /\ isProcessingHistory' = TRUE
            /\ syncStartTime' = now
            /\ hasInitialData' = hasValidData
            /\ syncPre' = Live
            /\ IF hasValidData
               THEN \* createBackup up to the await of serializeStoreData
                    /\ backupData' = Live
                    /\ aliased' = DOMAIN chats
                    /\ backupTaken' = Live
                    /\ iw' = [iw EXCEPT ![h] = [st |-> "new", file |-> BackupFile, stamp |-> 0,
                                                data |-> serializeStoreData, moved |-> FALSE]]
                    /\ hist' = [hist EXCEPT ![h] = [HistIdle EXCEPT !.pc = "backup", !.batch = idx]]
                    /\ UNCHANGED << storeVars, ingested >>
               ELSE /\ ProcessSync(h, idx)
                    /\ UNCHANGED << backupData, backupTaken, iw >>
       ELSE /\ ProcessSync(h, idx)
            /\ UNCHANGED << syncVars, backupData, backupTaken, iw, syncPre >>
    /\ UNCHANGED << serVars, files, tmp, upq, rd, now, faults, autoSaveTimer >>

\* createBackup: await this.writeToFileInternal(backupFile, ...)
HistBackupWrite(h) ==
    /\ hist[h].pc = "backup"
    /\ iw[h].st = "new"
    /\ iw' = [iw EXCEPT ![h] = IwCall(BackupFile, iw[h].data)]
    /\ UNCHANGED << storeVars, syncVars, backupVars, serVars, files, tmp, taskVars,
                    now, budget, syncPre, faults, autoSaveTimer, ingested >>

\* createBackup returns (an error of the write is logged), the try block starts
HistBackupDone(h) ==
    /\ hist[h].pc = "backup"
    /\ iw[h].st \in {"ok", "err"}
    /\ iw' = [iw EXCEPT ![h] = IwNone]
    /\ ProcessSync(h, hist[h].batch)
    /\ UNCHANGED << syncVars, backupData, backupTaken, serVars, files, tmp, upq, rd,
                    now, budget, syncPre, faults, autoSaveTimer >>

\* processMessagesOptimized resumes with the next chat.  After a rejection of
\* processChatsOptimized the catch block resumes two microtasks after
\* Promise.all was awaited: two more chats are processed before it, the
\* others after it, one between every two continuations of the handler.
HistMessages(h) ==
    /\ hist[h].pc # "idle"
    /\ hist[h].groups # << >>
    /\ hist[h].threw => IF hist[h].pc = "await" THEN hist[h].ticks < 2
                        ELSE hist[h].ticks = 2
    /\ messages' = ProcessChatMessagesOf(messages, Head(hist[h].groups).jid,
                                         Head(hist[h].groups).msgs)
    /\ hist' = [hist EXCEPT ![h].groups = Tail(@),
                            ![h].ticks = IF ~ hist[h].threw THEN @
                                         ELSE IF hist[h].pc = "await" THEN @ + 1
                                         ELSE IF MainPending(h) THEN 3 ELSE 2]
    /\ ingested' = ingested \cup IngestOf(Head(hist[h].groups).jid, Head(hist[h].groups).msgs)
    /\ UNCHANGED << chats, contacts, groupMetadata, stats, syncVars, backupVars, serVars,
                    fsVars, upq, rd, now, budget, syncPre, faults, autoSaveTimer >>

\* a faulty finalize that returns to Idle without clearing the backup
FinalizeEndKeepsBackup(h) ==
    /\ UNCHANGED << backupData, backupTaken, aliased >>
    /\ isProcessingHistory' = FALSE
    /\ syncStartTime' = NoTime
    /\ hasInitialData' = hasInitialData
    /\ hist' = Goto(h, "done")

\* clearBackup and the finally block of finalizeSyncProcess
FinalizeEnd(h) ==
    /\ backupData' = EmptyData
    /\ backupTaken' = EmptyData
    /\ aliased' = {}
    /\ isProcessingHistory' = FALSE
    /\ syncStartTime' = NoTime
    /\ hasInitialData' = hasInitialData
    /\ hist' = Goto(h, "done")

\* finalizeSyncProcess up to its first await
FinalizeBegin(h, st) ==
    IF hasValidData
    THEN /\ WriteToFileCall(h, StoreFile, TRUE)
         /\ hist' = Goto(h, "fin_wait")
         /\ stats' = st
         /\ UNCHANGED << chats, messages, contacts, groupMetadata, syncVars, backupVars >>
    ELSE IF hasBackupData
    THEN /\ RestoreFromBackup
         /\ hist' = Goto(h, "fin_restored")
         /\ UNCHANGED << backupData, backupTaken, syncVars,
                         writeLocks, pendingWrites, isWriting, wtf, reqs >>
    ELSE /\ FinalizeEnd(h)
         /\ stats' = st
         /\ UNCHANGED << chats, messages, contacts, groupMetadata,
                         writeLocks, pendingWrites, isWriting, wtf, reqs >>

\* the end of the try or catch block and the finally block of processHistorySet
AfterTry(h, st) ==
    IF IsFinal(BatchOf(h))
    THEN FinalizeBegin(h, st)
    ELSE /\ hist' = Goto(h, "done")
         /\ stats' = st
         /\ UNCHANGED << chats, messages, contacts, groupMetadata, syncVars, backupVars,
                         writeLocks, pendingWrites, isWriting, wtf, reqs >>

\* after await Promise.all: updateStats, the incremental save on a slow batch
HistAfterAll(h) ==
    /\ hist[h].pc = "await"
    /\ ~ hist[h].threw
    /\ hist[h].groups = << >>
    /\ LET st == UpdateStatsOf(chats, messages, contacts)
           processingTime == IF syncStartTime = NoTime THEN now + SlowBatchMs + 1
                             ELSE now - syncStartTime
       IN IF hasValidData /\ processingTime > SlowBatchMs
          THEN /\ WriteToFileCall(h, StoreFile, TRUE)
               /\ hist' = Goto(h, "inc_wait")
               /\ stats' = st
               /\ UNCHANGED << chats, messages, contacts, groupMetadata, syncVars, backupVars >>
          ELSE AfterTry(h, st)
    /\ UNCHANGED << immediates, fsVars, upq, rd, now, budget, syncPre, faults, autoSaveTimer, ingested >>

\* the incremental save has returned
HistAfterSave(h) ==
    /\ hist[h].pc = "inc_wait"
    /\ MainTurn(h)
    /\ WriteToFileReturned(h)
    /\ AfterTry(h, stats)
    /\ UNCHANGED << immediates, fsVars, upq, rd, now, budget, syncPre, faults, autoSaveTimer, ingested >>

\* the catch block: restoreFromBackup when the sync began with data
HistCatch(h) ==
    /\ hist[h].pc = "await"
    /\ hist[h].threw
    /\ hist[h].groups = << >> \/ hist[h].ticks = 2
    /\ IF hasInitialData
       THEN /\ RestoreFromBackup
            /\ hist' = Goto(h, "caught")
            /\ UNCHANGED << backupData, backupTaken, syncVars,
                            writeLocks, pendingWrites, isWriting, wtf, reqs >>
       ELSE AfterTry(h, stats)
    /\ UNCHANGED << immediates, fsVars, upq, rd, now, budget, syncPre, faults, autoSaveTimer, ingested >>

\* after await restoreFromBackup: store.error is emitted
HistCaught(h) ==
    /\ hist[h].pc = "caught"
    /\ MainTurn(h)
    /\ AfterTry(h, stats)
    /\ UNCHANGED << immediates, fsVars, upq, rd, now, budget, syncPre, faults, autoSaveTimer, ingested >>

\* finalizeSyncProcess after await restoreFromBackup: the snapshot write
HistFinalizeWrite(h) ==
    /\ hist[h].pc = "fin_restored"
    /\ MainTurn(h)
    /\ WriteToFileCall(h, StoreFile, hasValidData)
    /\ hist' = Goto(h, "fin_wait")
    /\ UNCHANGED << immediates, storeVars, syncVars, backupVars, fsVars, upq, rd,
                    now, budget, syncPre, faults, autoSaveTimer, ingested >>

\* finalizeSyncProcess after await writeToFile
HistFinalizeEnd(h) ==
    /\ hist[h].pc = "fin_wait"
    /\ MainTurn(h)
    /\ WriteToFileReturned(h)
    /\ FinalizeEnd(h)
    /\ UNCHANGED << storeVars, serVars, fsVars, upq, rd, now, budget, syncPre, faults, autoSaveTimer, ingested >>

\* the handler of messaging-history.set returns
HistReturn(h) ==
    /\ hist[h].pc = "done"
    /\ hist[h].groups = << >>
    /\ hist' = [hist EXCEPT ![h] = HistIdle]
    /\ UNCHANGED << storeVars, syncVars, backupVars, serVars, fsVars, upq, rd,
                    now, budget, syncPre, faults, autoSaveTimer, ingested >>


(***************************************************************************)
(* readFromFile.  rd is [st, file, depth, err]; depth 1 is the call made   *)
(* by readFromFile itself for the .backup file, while the outer call still *)
(* holds the lock; err says that the last call that returned has emitted   *)
(* store.error.                                                            *)
(***************************************************************************)
RdIdle == [st |-> "idle", file |-> StoreFile, depth |-> 0, err |-> FALSE]

BackupOf(file) == IF file = StoreFile THEN BackupFile ELSE "none"

ContentOf(file) == IF file \in Paths THEN files[file] ELSE NoFile

\* validateStoreData && JSON.parse: only a complete document loads
Loadable(content) == content.kind = "doc"

\* loadStoreData: the entries of the document are set over the live Maps
LoadStoreData(data) ==
    /\ chats' = LoadStoreDataOf(Live, data).chats
    /\ messages' = LoadStoreDataOf(Live, data).messages
    /\ contacts' = LoadStoreDataOf(Live, data).contacts
    /\ groupMetadata' = LoadStoreDataOf(Live, data).groupMetadata
    /\ stats' = UpdateStatsOf(chats', messages', contacts')
    /\ aliased' = aliased \ {data.chats[i][1] : i \in 1..Len(data.chats)}

\* the call up to the end of acquireWriteLock when the lock is free
ReadFromFile(file) ==
    /\ Event
    /\ rd.st = "idle"
    /\ IF FileLock \in writeLocks
       THEN /\ rd' = [st |-> "acquire", file |-> file, depth |-> 0, err |-> FALSE]
            /\ writeLocks' = writeLocks
       ELSE /\ rd' = [st |-> "stat", file |-> file, depth |-> 0, err |-> FALSE]
            /\ writeLocks' = writeLocks \cup {FileLock}
    /\ UNCHANGED << pendingWrites, isWriting, wtf, immediates, reqs, storeVars, syncVars,
                    backupVars, fsVars, hist, upq, now, syncPre, faults, autoSaveTimer, ingested >>

RdAcquire ==
    /\ Quiescent
    /\ rd.st = "acquire"
    /\ FileLock \notin writeLocks
    /\ rd' = [rd EXCEPT !.st = "stat"]
    /\ writeLocks' = writeLocks \cup {FileLock}
    /\ UNCHANGED << pendingWrites, isWriting, wtf, immediates, reqs, storeVars, syncVars,
                    backupVars, fsVars, hist, upq, now, budget, syncPre, faults, autoSaveTimer, ingested >>

\* the return through the finally block (of both calls when nested), after
\* the catch block when the call has thrown
RdReturn(err) ==
    /\ rd' = [RdIdle EXCEPT !.err = err]
    /\ writeLocks' = writeLocks \ {FileLock}

\* fs.stat(file): no file ends the call, a file under 10 bytes goes to the backup
RdStat ==
    /\ Quiescent
    /\ rd.st = "stat"
    /\ IF ContentOf(rd.file).kind = "absent"
       THEN RdReturn(FALSE)
       ELSE /\ rd' = [rd EXCEPT !.st = IF FileSize(ContentOf(rd.file)) < MinFileSize
                                       THEN "statBackup" ELSE "read"]
            /\ writeLocks' = writeLocks
    /\ UNCHANGED << pendingWrites, isWriting, wtf, immediates, reqs, storeVars, syncVars,
                    backupVars, fsVars, hist, upq, now, budget, syncPre, faults, autoSaveTimer, ingested >>

\* fs.stat(backupFile): a backup over 10 bytes is read by a nested call,
\* which waits for the lock
RdStatBackup ==
    /\ Quiescent
    /\ rd.st = "statBackup"
    /\ LET backupStats == ContentOf(BackupOf(rd.file))
       IN IF backupStats.kind # "absent" /\ FileSize(backupStats) > MinFileSize
          THEN /\ rd' = [st |-> IF FileLock \in writeLocks THEN "acquire" ELSE "stat",
                         file |-> BackupOf(rd.file), depth |-> rd.depth + 1, err |-> FALSE]
               /\ writeLocks' = writeLocks \cup {FileLock}
          ELSE RdReturn(FALSE)
    /\ UNCHANGED << pendingWrites, isWriting, wtf, immediates, reqs, storeVars, syncVars,
                    backupVars, fsVars, hist, upq, now, budget, syncPre, faults, autoSaveTimer, ingested >>

\* loadStoreData on a document of the right structure whose groupMetadata
\* is not a list of entries: chats, messages and contacts are loaded, then
\* the loop over groupMetadata throws, before updateStats
LoadStoreDataThrows(data) ==
    /\ chats' = LoadStoreDataOf(Live, data).chats
    /\ messages' = LoadStoreDataOf(Live, data).messages
    /\ contacts' = LoadStoreDataOf(Live, data).contacts
    /\ aliased' = aliased \ {data.chats[i][1] : i \in 1..Len(data.chats)}
    /\ UNCHANGED << groupMetadata, stats >>

\* fs.readFile, the check of blank content, JSON.parse, validateStoreData,
\* loadStoreData; whatever throws is reported by the catch block
RdRead ==
    /\ Quiescent
    /\ rd.st = "read"
    /\ LET content == ContentOf(rd.file)
       IN CASE content.kind = "blank" ->
                 /\ UNCHANGED << storeVars, aliased, hasInitialData >>
                 /\ RdReturn(FALSE)
            [] Loadable(content) ->
                 /\ LoadStoreData(content.data)
                 /\ hasInitialData' = TRUE
                 /\ RdReturn(FALSE)
            [] content.kind = "badmeta" ->
                 /\ LoadStoreDataThrows(content.data)
                 /\ hasInitialData' = hasInitialData
                 /\ RdReturn(TRUE)
            [] OTHER ->
                 /\ UNCHANGED << storeVars, aliased, hasInitialData >>
                 /\ RdReturn(TRUE)
    /\ UNCHANGED << pendingWrites, isWriting, wtf, immediates, reqs, isProcessingHistory,
                    syncStartTime, backupData, backupTaken, fsVars, hist, upq, now,
                    budget, syncPre, faults, autoSaveTimer, ingested >>

(***************************************************************************)
(* The program after construction, with the files found on disk, the       *)
(* number of events to come and of file-system failures to inject.         *)
(***************************************************************************)
InitWith(disk, events, failures) ==
    /\ chats = EmptyMap
    /\ messages = EmptyMap
    /\ contacts = EmptyMap
    /\ groupMetadata = EmptyMap
    /\ stats = [totalChats |-> 0, totalContacts |-> 0, totalMessages |-> 0]
    /\ isProcessingHistory = FALSE
    /\ syncStartTime = NoTime
    /\ hasInitialData = FALSE
    /\ backupData = EmptyData
    /\ aliased = {}
    /\ writeLocks = {}
    /\ pendingWrites = << >>
    /\ isWriting = FALSE
    /\ wtf = WtfIdle
    /\ immediates = << >>
    /\ files = disk
    /\ tmp = EmptyMap
    /\ iw = [w \in Writers |-> IwNone]
    /\ hist = [h \in HistIds |-> HistIdle]
    /\ upq = << >>
    /\ rd = RdIdle
    /\ now = 0
    /\ budget = events
    /\ faults = failures
    /\ autoSaveTimer = TRUE
    /\ ingested = {}
    /\ backupTaken = EmptyData
    /\ syncPre = EmptyData
    /\ reqs = 0

NoDisk == [p \in Paths |-> NoFile]

\* the steps of writeToFileInternal, each file-system call failing or not
IoStep ==
    \/ \E w \in Writers, ok \in BOOLEAN : IwOpen(w, ok)
    \/ \E w \in Writers, ok \in BOOLEAN : IwWrite(w, ok)
    \/ \E w \in Writers, ok \in BOOLEAN : IwStat(w, ok)
    \/ \E w \in Writers, ok \in BOOLEAN : IwRename(w, ok)
    \/ \E w \in Writers, ok \in BOOLEAN : IwUnlink(w, ok)

\* the steps of writeToFileInternal on a file system that does not fail
IoOkStep ==
    \/ \E w \in Writers : IwOpen(w, TRUE)
    \/ \E w \in Writers : IwWrite(w, TRUE)
    \/ \E w \in Writers : IwStat(w, TRUE)
    \/ \E w \in Writers : IwRename(w, TRUE)

\* the steps of writeToFile when nothing else holds the lock
SerializerStep ==
    \/ WtfSerialize
    \/ WtfWrite
    \/ WtfFinish
    \/ RunImmediate

\* the steps of processHistorySet on a batch that does not fail
SyncStep ==
    \/ \E h \in HistIds : HistBackupWrite(h)
    \/ \E h \in HistIds : HistBackupDone(h)
    \/ \E h \in HistIds : HistAfterAll(h)
    \/ \E h \in HistIds : HistAfterSave(h)
    \/ \E h \in HistIds : HistFinalizeEnd(h)
    \/ \E h \in HistIds : HistReturn(h)

\* the steps of readFromFile
ReadStep ==
    \/ RdAcquire
    \/ RdStat
    \/ RdStatBackup
    \/ RdRead

(***************************************************************************)
(* Spec: the snapshot writer and the write serializer under auto-save      *)
(* ticks, cleanup and history batches, with one file-system failure.       *)
(***************************************************************************)
MaxFaults == 1

Init == InitWith(NoDisk, MaxEvents, MaxFaults)

Next ==
    \/ IoStep
    \/ SerializerStep
    \/ SyncStep
    \/ ClockTick(SyncQuietMs)
    \/ SmartAutoSave
    \/ Cleanup
    \/ ChatsSet(ChatItem("A", 0))
    \/ \E idx \in {1, 2} : \E h \in HistIds : HistStart(h, idx)

Spec == Init /\ [][Next]_vars

(***************************************************************************)
(* SpecSync: history batches of every size class on a store that holds a   *)
(* chat, with chat updates, on a file system that does not fail.           *)
(***************************************************************************)
SyncEvents == 3

InitSync == InitWith(NoDisk, SyncEvents, 0)

NextSync ==
    \/ IoOkStep
    \/ SerializerStep
    \/ SyncStep
    \/ ChatsSet(ChatItem("B", 1))
    \/ ChatsUpdate([id |-> "B", fields |-> [id |-> "B", unreadCount |-> 1]])
    \/ \E idx \in {1, 2, 3, 6, 7, 8, 9, 11} : \E h \in HistIds : HistStart(h, idx)

SpecSync == InitSync /\ [][NextSync]_vars

(***************************************************************************)
(* SpecFail: history batches whose processing throws, on a store that      *)
(* holds a chat or nothing.                                                *)
(***************************************************************************)
FailEvents == 3

InitFail == InitWith(NoDisk, FailEvents, 0)

NextFail ==
    \/ IoOkStep
    \/ \E h \in HistIds : HistBackupWrite(h)
    \/ \E h \in HistIds : HistBackupDone(h)
    \/ \E h \in HistIds : HistMessages(h)
    \/ \E h \in HistIds : HistCatch(h)
    \/ \E h \in HistIds : HistCaught(h)
    \/ \E h \in HistIds : HistReturn(h)
    \/ ChatsSet(ChatItem("A", 0))
    \/ \E idx \in {4, 10} : \E h \in HistIds : HistStart(h, idx)

SpecFail == InitFail /\ [][NextFail]_vars

(***************************************************************************)
(* SpecEvict: message insertions only (messages.upsert with one or two     *)
(* messages, and a history batch), each message id with its timestamp:     *)
(* increasing, equal and missing timestamps, and messages handed over      *)
(* again.                                                                  *)
(***************************************************************************)
EvictEvents == 5

EvictMessages ==
    { << Msg("B", 1, 1, 1) >>, << Msg("B", 2, 2, 1) >>, << Msg("B", 3, 3, 1) >>,
      << Msg("B", 4, 4, 1) >>, << Msg("B", 7, 4, 1) >>, << Msg("B", 8, NoTs, 1) >>,
      << Msg("A", 1, 1, 1), Msg("B:1", 5, 5, 1) >> }

InitEvict == InitWith(NoDisk, EvictEvents, 0)

NextEvict ==
    \/ IoOkStep
    \/ \E h \in HistIds : HistBackupWrite(h)
    \/ \E h \in HistIds : HistBackupDone(h)
    \/ \E h \in HistIds : HistAfterAll(h)
    \/ \E h \in HistIds : HistReturn(h)
    \/ UpsertContinue
    \/ \E ms \in EvictMessages : MessagesUpsert(ms, "append")
    \/ MessagesUpsert(<< Msg("B", 6, 6, 1) >>, "notify")
    \/ \E h \in HistIds : HistStart(h, 11)

SpecEvict == InitEvict /\ [][NextEvict]_vars

(***************************************************************************)
(* SpecLive: a store file cut short and a backup file on disk, the read of *)
(* the store file, final history batches that succeed or throw; every      *)
(* continuation, timer and file-system completion that can run does run.   *)
(***************************************************************************)
LiveEvents == 3

CutFile == [kind |-> "tiny", data |-> EmptyData]

OldSnapshot ==
    [EmptyData EXCEPT !.chats = << << "A", [id |-> "A", unreadCount |-> 0] >> >>]

CutDisk == [p \in Paths |-> IF p = StoreFile THEN CutFile ELSE DocFile(OldSnapshot)]

InitLive == InitWith(CutDisk, LiveEvents, 0)

LiveStep ==
    \/ IoOkStep
    \/ SerializerStep
    \/ WtfAcquire
    \/ ReadStep
    \/ SyncStep
    \/ \E h \in HistIds : HistCatch(h)
    \/ \E h \in HistIds : HistCaught(h)

NextLive ==
    \/ LiveStep
    \/ ReadFromFile(StoreFile)
    \/ \E idx \in {2, 5} : \E h \in HistIds : HistStart(h, idx)

SpecLive == InitLive /\ [][NextLive]_vars /\ WF_vars(LiveStep)

(***************************************************************************)
(* SpecLoad: readFromFile on the store files that can be found on disk     *)
(* (too small with and without a usable backup, blank, unparsable, of the  *)
(* wrong structure, not loadable, complete), on a store that is empty or   *)
(* not, with writes of the auto-save timer competing for the lock.         *)
(***************************************************************************)
LoadEvents == 4

FoundFile(kind) == [kind |-> kind, data |-> IF kind \in {"doc", "badmeta"} THEN OldSnapshot ELSE EmptyData]

LoadDisks ==
    {[p \in Paths |-> IF p = StoreFile THEN FoundFile(k[1]) ELSE FoundFile(k[2])] :
        k \in {<< "tiny", "doc" >>, << "tiny", "absent" >>, << "tiny", "tiny" >>,
               << "blank", "absent" >>, << "junk", "absent" >>, << "invalid", "absent" >>,
               << "badmeta", "absent" >>, << "doc", "absent" >>, << "absent", "doc" >>}}

InitLoad == \E disk \in LoadDisks : InitWith(disk, LoadEvents, 0)

LoadStep ==
    \/ IoOkStep
    \/ SerializerStep
    \/ WtfAcquire
    \/ ReadStep

NextLoad ==
    \/ LoadStep
    \/ ReadFromFile(StoreFile)
    \/ SmartAutoSave
    \/ ChatsSet(ChatItem("B", 0))
    \/ ChatsDelete({"B"})

SpecLoad == InitLoad /\ [][NextLoad]_vars /\ WF_vars(LoadStep)

(***************************************************************************)
(* SpecLock: reads of the store file and of the .backup file, writes of    *)
(* the auto-save timer and the backup write of a starting sync, all        *)
(* competing for the files and the lock.                                   *)
(***************************************************************************)
LockEvents == 4

SavedDisk == [p \in Paths |-> DocFile(OldSnapshot)]

InitLock == InitWith(SavedDisk, LockEvents, 0)

NextLock ==
    \/ IoOkStep
    \/ SerializerStep
    \/ WtfAcquire
    \/ RdAcquire
    \/ RdStat
    \/ RdRead
    \/ \E h \in HistIds : HistBackupWrite(h)
    \/ \E h \in HistIds : HistBackupDone(h)
    \/ \E h \in HistIds : HistAfterAll(h)
    \/ \E h \in HistIds : HistReturn(h)
    \/ \E file \in Paths : ReadFromFile(file)
    \/ SmartAutoSave
    \/ ChatsSet(ChatItem("B", 0))
    \/ \E h \in HistIds : HistStart(h, 1)

SpecLock == InitLock /\ [][NextLock]_vars

(***************************************************************************)
(* SpecFin: the finalize step of a sync whose store was emptied by         *)
(* chats.delete after the backup was taken or not, with a write of the     *)
(* auto-save timer in flight or not, and one file-system failure.          *)
(***************************************************************************)
FinEvents == 4

InitFin == InitWith(NoDisk, FinEvents, MaxFaults)

NextFin ==
    \/ IoStep
    \/ SerializerStep
    \/ \E h \in HistIds : HistBackupWrite(h)
    \/ \E h \in HistIds : HistBackupDone(h)
    \/ \E h \in HistIds : HistAfterAll(h)
    \/ \E h \in HistIds : HistFinalizeWrite(h)
    \/ \E h \in HistIds : HistFinalizeEnd(h)
    \/ \E h \in HistIds : HistReturn(h)
    \/ SmartAutoSave
    \/ ChatsSet(ChatItem("A", 0))
    \/ ChatsDelete({"A"})
    \/ \E idx \in {2, 12} : \E h \in HistIds : HistStart(h, idx)

SpecFin == InitFin /\ [][NextFin]_vars

(***************************************************************************)
(* SpecTorn: last batches of a sync, one of them failing at its first      *)
(* chat while it carries the messages of five chats, on an empty store and *)
(* on a store that holds a chat.                                           *)
(***************************************************************************)
TornEvents == 3

InitTorn == InitWith(NoDisk, TornEvents, 0)

NextTorn ==
    \/ IoOkStep
    \/ SerializerStep
    \/ \E h \in HistIds : HistBackupWrite(h)
    \/ \E h \in HistIds : HistBackupDone(h)
    \/ \E h \in HistIds : HistMessages(h)
    \/ \E h \in HistIds : HistAfterAll(h)
    \/ \E h \in HistIds : HistCatch(h)
    \/ \E h \in HistIds : HistCaught(h)
    \/ \E h \in HistIds : HistFinalizeEnd(h)
    \/ \E h \in HistIds : HistReturn(h)
    \/ ChatsSet(ChatItem("A", 0))
    \/ \E idx \in {2, 13} : \E h \in HistIds : HistStart(h, idx)

SpecTorn == InitTorn /\ [][NextTorn]_vars

(***************************************************************************)
(* SpecTrip: chats, messages, contacts and group metadata arrive, chats    *)
(* are deleted, and auto-save writes snapshots on a file system that does  *)
(* not fail.                                                               *)
(***************************************************************************)
TripEvents == 5

InitTrip == InitWith(NoDisk, TripEvents, 0)

NextTrip ==
    \/ IoOkStep
    \/ SerializerStep
    \/ UpsertContinue
    \/ SmartAutoSave
    \/ ChatsSet(ChatItem("B", 0))
    \/ ChatsDelete({"A"})
    \/ MessagesUpsert(<< Msg("A", 2, 2, 1), Msg("A", 1, NoTs, 1), Msg("B:1", 1, 1, 1) >>, "notify")
    \/ ContactsUpsert(<< ContactItem("C", 1) >>)
    \/ GroupsUpdate([id |-> "D", fields |-> [id |-> "D", subject |-> 1]])

SpecTrip == InitTrip /\ [][NextTrip]_vars

(***************************************************************************)
(* SpecSkip: batches of messages, of contacts and of history whose first   *)
(* record is malformed and whose second record is well formed, before and  *)
(* after a small sync that leaves data in the store.                       *)
(***************************************************************************)
SkipEvents == 3

MixedUpsert == << [Msg("A", 2, 2, 1) EXCEPT !.bad = TRUE], Msg("A", 1, 1, 1) >>

MixedContacts == << NullItem, ContactItem("C", 1) >>

InitSkip == InitWith(NoDisk, SkipEvents, 0)

NextSkip ==
    \/ IoOkStep
    \/ SerializerStep
    \/ \E h \in HistIds : HistBackupWrite(h)
    \/ \E h \in HistIds : HistBackupDone(h)
    \/ \E h \in HistIds : HistAfterAll(h)
    \/ \E h \in HistIds : HistCatch(h)
    \/ \E h \in HistIds : HistCaught(h)
    \/ \E h \in HistIds : HistFinalizeEnd(h)
    \/ \E h \in HistIds : HistReturn(h)
    \/ MessagesUpsert(MixedUpsert, "append")
    \/ ContactsUpsert(MixedContacts)
    \/ \E idx \in {2, 14} : \E h \in HistIds : HistStart(h, idx)

SpecSkip == InitSkip /\ [][NextSkip]_vars

(***************************************************************************)
(* SpecOps: the handlers of chat, message and contact events on a store    *)
(* that is Idle or Syncing: chats are set, upserted, updated with and      *)
(* without an unread count and deleted, messages arrive in 'notify' and    *)
(* 'append' batches of up to 101 messages, some of them a second time with *)
(* another payload, and a small history batch starts a sync.               *)
(***************************************************************************)
OpsEvents == 3

OpsChats ==
    {ChatItem("A", 3), [ChatItem("A", 2) EXCEPT !.fields = Spread(@, [name |-> 7])],
     ChatItem("A:1", 0)}

OpsUpdates ==
    {[id |-> j, fields |-> Spread([id |-> j], f)] :
        j \in {"A", "B"},
        f \in {[unreadCount |-> 2, archived |-> 1], [unreadCount |-> 0], [unreadCount |-> -1],
               [name |-> 5]}}

OpsBatches ==
    { << Msg("B", 1, 1, 2) >>,
      << Msg("C", 1, 1, 1), Msg("A:1", 1, 1, 1), Msg("C", 2, 2, 1) >>,
      Repeat(Msg("C", 9, 9, 1), BigUpsert),
      Repeat(Msg("C", 9, 9, 1), BigUpsert + 1) }

NextOps ==
    \/ IoOkStep
    \/ UpsertContinue
    \/ \E h \in HistIds : HistBackupWrite(h)
    \/ \E h \in HistIds : HistBackupDone(h)
    \/ \E h \in HistIds : HistAfterAll(h)
    \/ \E h \in HistIds : HistReturn(h)
    \/ \E chat \in OpsChats : ChatsSet(chat)
    \/ \E chat \in OpsChats : ChatsUpsert(chat)
    \/ \E update \in OpsUpdates : ChatsUpdate(update)
    \/ \E chatId \in {"A", "A:1"} : ChatsDelete({chatId})
    \/ ContactsUpsert(<< ContactItem("C", 1) >>)
    \/ \E ms \in OpsBatches, type \in {"notify", "append"} : MessagesUpsert(ms, type)
    \/ \E h \in HistIds : HistStart(h, 1)

SpecOps == InitWith(NoDisk, OpsEvents, 0) /\ [][NextOps]_vars

(***************************************************************************)
(* SpecPend: writeToFile called for the store file and for a second path   *)
(* while a write is in flight, chats set and deleted in between; every     *)
(* file-system completion, continuation and setImmediate callback that can *)
(* run does run.                                                           *)
(***************************************************************************)
PendEvents == 5

NextPend ==
    \/ IoOkStep
    \/ SerializerStep
    \/ ChatsSet(ChatItem("A", 0))
    \/ ChatsDelete({"A"})
    \/ \E file \in Paths :
          /\ Event
          /\ WriteToFileCall(0, file, hasValidData)
          /\ UNCHANGED << immediates, storeVars, syncVars, backupVars, fsVars, taskVars,
                          now, syncPre, faults, autoSaveTimer, ingested >>

SpecPend ==
    /\ InitWith(NoDisk, PendEvents, 0)
    /\ [][NextPend]_vars
    /\ WF_vars(IoOkStep \/ SerializerStep)

(***************************************************************************)
(* Properties of the write serializer and of the snapshot writer.          *)
(***************************************************************************)

\* C1: at any moment at most one execution of writeToFileInternal is in
\* flight for a given target path.
C1_OneWritePerPath ==
    \A w1, w2 \in Writers :
        IwRunning(w1) /\ IwRunning(w2) /\ iw[w1].file = iw[w2].file => w1 = w2

\* C1, its second half: no execution of writeToFileInternal is in flight
\* outside the serializer, that is, every one in flight is the one of the
\* writeToFile call that has set isWriting and holds the lock.
C1_InsideSerializer ==
    \A w \in Writers : IwRunning(w) => w = 0 /\ isWriting /\ FileLock \in writeLocks

\* C2: a writeToFile request that arrives while a write is in flight starts
\* no write and is recorded as pending; when the write in flight completes
\* after k >= 1 such requests, exactly one write is dispatched for the path
\* and no request stays pending; the dispatched call starts the one trailing
\* write.
C2_Coalesced ==
    [][ /\ (isWriting /\ reqs' = reqs + 1) =>
            /\ wtf' = wtf /\ iw' = iw /\ isWriting'
            /\ \E i \in 1..Len(pendingWrites') : pendingWrites'[i] = StoreFile
        /\ (wtf.st = "io" /\ wtf'.st = "idle") =>
            IF reqs >= 1
            THEN immediates' = Append(immediates, wtf.file) /\ pendingWrites' = << >>
            ELSE immediates' = immediates /\ pendingWrites' = << >>
        /\ (Len(immediates') < Len(immediates) /\ ~ isWriting /\ hasValidData) =>
            isWriting' /\ wtf'.st = "locked" /\ wtf'.file = Head(immediates)
      ]_vars

\* two requests arrived during one write, the write has completed, and one
\* call is dispatched
C2_Witness ==
    /\ reqs >= 2
    /\ wtf.st = "idle"
    /\ immediates = << StoreFile >>
    /\ pendingWrites = << >>

\* C3: every change of the file at a target path installs a complete
\* snapshot: no step, failing or not, leaves a target empty, truncated or
\* absent.
C3_TargetAlwaysComplete ==
    [][\A p \in Paths : files'[p] # files[p] => files'[p].kind = "doc"]_vars

(***************************************************************************)
(* Properties of the history-sync controller and of its backup.            *)
(***************************************************************************)

\* C4: once a processHistorySet call that threw has finished with every
\* sub-task it started, and no history task is running, the four mappings
\* equal their contents at the moment the sync started (stated for a sync
\* that started with data, so that a backup was taken).
C4_FailedSyncRestored ==
    ( /\ \E h \in HistIds : hist[h].pc = "done" /\ hist[h].threw
      /\ \A h \in HistIds : hist[h].pc \in {"idle", "done"} /\ hist[h].groups = << >>
      /\ backupTaken # EmptyData )
    => Live = syncPre

\* C5: while a backup exists its contents equal the contents of the store at
\* the instant the backup was taken, whatever mutates the live store.
C5_BackupUnchanged == backupData = backupTaken

\* the step in which history task h runs the try block of processHistorySet
\* up to await Promise.all, and the batch it processes
SyncRuns(h) == hist[h].pc \in {"idle", "backup"} /\ hist'[h].pc = "await"

SyncBatch(h) == AllBatches[hist'[h].batch]

\* the batch is marked latest and carries more than 10 chats or more than
\* 100 messages
LargeLatest(b) ==
    b.isLatest /\ (Len(b.chats) > ManyChats \/ Len(b.messages) > ManyMessages)

\* after the step the store holds only chats and messages of the batch
OnlyOf(b) ==
    /\ \A j \in DOMAIN chats' :
          \E i \in 1..Len(b.chats) :
             /\ b.chats[i].id = j
             /\ \A f \in DOMAIN b.chats[i].fields : chats'[j][f] = b.chats[i].fields[f]
    /\ \A j \in DOMAIN messages' : \A k \in 1..Len(messages'[j]) :
          \E i \in 1..Len(b.messages) :
             /\ jidNormalizedUser(b.messages[i].jid) = j
             /\ messages'[j][k].id = b.messages[i].id
             /\ messages'[j][k].ts = b.messages[i].ts
             /\ messages'[j][k].v = b.messages[i].v

\* after the step every chat the store held is as it was and the chats of
\* the batch are in the store
KeepsChats(b) ==
    /\ \A j \in DOMAIN chats : j \in DOMAIN chats' /\ chats'[j] = chats[j]
    /\ \A i \in 1..Len(b.chats) : b.chats[i].id \in DOMAIN chats'

\* after the step every message the store held is still held (full = FALSE),
\* or is still held unless its chat is at the cap (full = TRUE)
KeepsMessages(full) ==
    \A j \in DOMAIN messages :
       /\ j \in DOMAIN messages'
       /\ \A k \in 1..Len(messages[j]) :
             \/ \E n \in 1..Len(messages'[j]) : messages'[j][n] = messages[j][k]
             \/ full /\ Len(messages'[j]) = maxMessagesPerChat

\* C9 as written: a batch clears the chats and messages before merging if
\* and only if it is marked latest and is large; any other batch keeps every
\* existing chat and every existing message and merges the new ones in.
C9_KeepsEveryMessage ==
    [][\A h \in HistIds : SyncRuns(h) =>
          IF LargeLatest(SyncBatch(h))
          THEN OnlyOf(SyncBatch(h))
          ELSE KeepsChats(SyncBatch(h)) /\ KeepsMessages(FALSE)]_vars

\* C9 amended: ... any other batch keeps every existing chat, and every
\* existing message except those the per-chat cap evicts when the new ones
\* are merged in.
C9_ClearsIffLargeLatest ==
    [][\A h \in HistIds : SyncRuns(h) =>
          IF LargeLatest(SyncBatch(h))
          THEN OnlyOf(SyncBatch(h))
          ELSE KeepsChats(SyncBatch(h)) /\ KeepsMessages(TRUE)]_vars

\* a latest batch of 11 chats was processed on a store whose chat B had one
\* unread message: the store holds chat B of the batch only
C9_Witness ==
    \E h \in HistIds :
       /\ hist[h].pc = "await" /\ hist[h].batch = 3
       /\ "B" \in DOMAIN backupTaken.chats /\ backupTaken.chats["B"].unreadCount = 1
       /\ DOMAIN chats = {"B"} /\ chats["B"].unreadCount = 0

(***************************************************************************)
(* Properties of the message index.                                        *)
(***************************************************************************)

\* C6: no chat retains more than maxMessagesPerChat messages.
C6_CapRespected ==
    \A j \in DOMAIN messages : Len(messages[j]) <= maxMessagesPerChat

\* more messages were inserted into a chat than it may retain
C6_Witness ==
    \E j \in DOMAIN messages :
       /\ Len(messages[j]) = maxMessagesPerChat
       /\ Cardinality({r \in ingested : r.jid = j}) > maxMessagesPerChat

\* the messages inserted into chat j and the messages it retains
InsertedInto(j) == {[id |-> r.id, ts |-> r.ts] : r \in {x \in ingested : x.jid = j}}

RetainedIn(j) ==
    IF j \in DOMAIN messages
    THEN {[id |-> messages[j][k].id, ts |-> messages[j][k].ts] : k \in 1..Len(messages[j])}
    ELSE {}

\* messageTimestamp, a missing one counted as 0
Stamp(r) == IF r.ts = NoTs THEN 0 ELSE r.ts

\* C7: the messages a chat retains are the cap-most-recent of the messages
\* inserted into it: they are inserted ones, as many as the cap allows, and
\* none of them is older than an inserted message that is not retained.
C7_MostRecentRetained ==
    \A j \in {r.jid : r \in ingested} :
       /\ RetainedIn(j) \subseteq InsertedInto(j)
       /\ Cardinality(RetainedIn(j)) =
             IF Cardinality(InsertedInto(j)) < maxMessagesPerChat
             THEN Cardinality(InsertedInto(j)) ELSE maxMessagesPerChat
       /\ \A r \in RetainedIn(j) : \A e \in InsertedInto(j) \ RetainedIn(j) :
             Stamp(e) <= Stamp(r)

\* with cap 3, timestamps 1,2,3,4 were inserted into chat B and exactly
\* 2,3,4 are retained
C7_Witness ==
    /\ maxMessagesPerChat = 3
    /\ {r.ts : r \in InsertedInto("B")} = {1, 2, 3, 4}
    /\ {r.ts : r \in RetainedIn("B")} = {2, 3, 4}

\* C8: a messages.upsert that hands over a message the store was handed
\* before and still holds leaves one entry per message id in the chat and
\* the message counter of stats as it was.
C8_SecondIngestCountsNothing ==
    [][(budget' < budget /\ upq' = upq /\ hist' = hist
          /\ ingested' = ingested /\ messages' = messages)
       => /\ stats'.totalMessages = stats.totalMessages
          /\ \A j \in DOMAIN messages' : \A k, n \in 1..Len(messages'[j]) :
                messages'[j][k].id = messages'[j][n].id => k = n]_vars

(***************************************************************************)
(* Progress of the history-sync controller.                                *)
(***************************************************************************)

\* C10: a bulk-sync event handled while no sync is processed starts one,
\* and every processed batch that is the last one (isLatest, or progress at
\* 100 or more) leads to a state where no sync is processed.
C10_FinalBatchReturnsToIdle ==
    /\ [][\A h \in HistIds :
             (~ isProcessingHistory /\ hist[h].pc = "idle" /\ hist'[h].pc # "idle")
             => isProcessingHistory']_vars
    /\ \A h \in HistIds :
          (hist[h].pc # "idle" /\ IsFinal(BatchOf(h))) ~> ~ isProcessingHistory

(***************************************************************************)
(* Properties of the backup window and of the finalize step.               *)
(***************************************************************************)

\* C11: whenever the controller is Idle (isProcessingHistory false) the
\* in-memory backup is empty.
C11_IdleHasNoBackup == ~ isProcessingHistory => backupData = EmptyData

\* a sync that took a backup has been finalized and the controller is Idle
C11_Witness ==
    /\ ~ isProcessingHistory
    /\ syncPre # EmptyData
    /\ \E h \in HistIds : hist[h].pc = "done" /\ IsFinal(BatchOf(h))

\* history task h enters finalizeSyncProcess in this step
FinalizeRuns(h) ==
    /\ hist[h].pc \in {"await", "inc_wait", "caught"}
    /\ IsFinal(BatchOf(h))
    /\ hist'[h].pc \in {"fin_wait", "fin_restored", "done"}

\* the writeToFile call of finalizeSyncProcess is made by h in this step
FinalizeCallsWrite(h) ==
    /\ hist[h].pc \in {"await", "inc_wait", "caught", "fin_restored"}
    /\ hist'[h].pc = "fin_wait"

\* C12: in the finalize step a store that holds valid data is written: the
\* writeToFile call of finalize starts a write, the write serializes the
\* live store, and when it ends without an error the store file holds what
\* was serialized; a store that holds none while a backup exists is first
\* made equal to the backup, and then written the same way.
C12_FinalizeWritesSnapshot ==
    [][\A h \in HistIds :
          /\ (FinalizeRuns(h) /\ ~ hasValidData /\ hasBackupData)
                => (hist'[h].pc = "fin_restored" /\ Live' = backupData)
          /\ (FinalizeRuns(h) /\ hasValidData) => hist'[h].pc = "fin_wait"
          /\ (hist[h].pc = "fin_restored" /\ hist'[h].pc # "fin_restored")
                => (FinalizeCallsWrite(h) /\ Live = backupData)
          /\ FinalizeCallsWrite(h)
                => (wtf'.owner = h /\ wtf'.st \in {"acquire", "locked"} /\ wtf.st = "idle")
          /\ (wtf.owner = h /\ wtf.st = "locked" /\ wtf'.st = "serialized")
                => wtf'.data = serializeStoreData
          /\ (wtf.owner = h /\ wtf.st = "io" /\ iw[0].st = "ok" /\ wtf'.st = "idle")
                => files[StoreFile] = DocFile(wtf.data)
      ]_vars

\* the write that finalizeSyncProcess of h awaits ends with an error in this
\* step
FinalizeWriteFails(h) ==
    /\ hist[h].pc = "fin_wait"
    /\ wtf.owner = h /\ wtf.st = "io" /\ iw[0].st = "err"
    /\ wtf'.st = "idle"

\* C13: when the write of the finalize step fails while the backup is not
\* empty, the store file on disk holds the contents of the backup.
C13_FailedFinalizeLeavesBackup ==
    [][\A h \in HistIds :
          (FinalizeWriteFails(h) /\ hasBackupData)
          => files'[StoreFile] = DocFile(SerializeStoreDataOf(backupData))]_vars

(***************************************************************************)
(* Properties of readFromFile.                                             *)
(***************************************************************************)

\* the store holds every entry of the four mappings of data
StoreHolds(data) == LoadStoreDataOf(Live, data) = Live

\* readFromFile has found the store file too small and the .backup file is
\* a complete snapshot
FallsBackToBackup ==
    /\ rd.st = "statBackup" /\ rd.file = StoreFile
    /\ files[BackupFile].kind = "doc"

\* C14: a readFromFile call that finds the store file too small and no
\* usable backup returns without an error and leaves the four mappings as
\* they were; one that finds a complete .backup file eventually returns
\* without an error, the store holding the contents of the .backup file.
C14_SmallFileFallsBack ==
    /\ [][(rd.st = "statBackup" /\ rd'.st = "idle") => (~ rd'.err /\ Live' = Live)]_vars
    /\ FallsBackToBackup
          ~> (rd.st = "idle" /\ ~ rd.err /\ StoreHolds(files[BackupFile].data))

\* the readFromFile call is between taking the lock and its return
RdHoldsLock == rd.st \in {"stat", "statBackup", "read"} \/ (rd.st = "acquire" /\ rd.depth > 0)

\* the writeToFile call is between taking the lock and its finally block
WtfHoldsLock == wtf.st \in {"locked", "serialized", "io"}

\* C15: every file write runs inside the writeToFile call that holds the
\* lock and every file read inside the readFromFile call that holds it, the
\* two never hold it together, and no file is read while a write to that
\* file is in flight.
C15_ReadsAndWritesUnderLock ==
    /\ \A w \in Writers : IwRunning(w) => (w = 0 /\ WtfHoldsLock /\ FileLock \in writeLocks)
    /\ RdHoldsLock => FileLock \in writeLocks
    /\ ~ (RdHoldsLock /\ WtfHoldsLock)
    /\ \A w \in Writers :
          (IwRunning(w) /\ rd.st \in {"stat", "read"}) => iw[w].file # rd.file


(***************************************************************************)
(* Properties of the state a snapshot is serialized from                   *)
(***************************************************************************)
\* the processing of the batch of h has begun and has not completed
Unfinished(h) ==
    \/ hist[h].pc = "await"
    \/ hist[h].pc # "idle" /\ hist[h].groups # << >>

\* the catch block of h has called restoreFromBackup
RolledBack(h) ==
    /\ hist[h].threw
    /\ hist[h].pc \notin {"idle", "backup", "await"}
    /\ hasInitialData

\* C16: whenever writeToFile runs serializeStoreData, no history batch is
\* partially applied: none has begun its processing without having
\* completed it or having been rolled back.
C16_NoTornSnapshot ==
    [][(wtf.st = "locked" /\ wtf'.st = "serialized")
         => \A h \in HistIds : Unfinished(h) => RolledBack(h)]_vars


(***************************************************************************)
(* Properties of a snapshot that is written and read again                 *)
(***************************************************************************)
\* readFromFile(file) of a store just constructed: the four mappings it
\* holds when the call returns
FreshRead(content) ==
    IF content.kind = "absent" \/ FileSize(content) < MinFileSize \/ ~ Loadable(content)
    THEN EmptyData
    ELSE LoadStoreDataOf(EmptyData, content.data)

WriteFails == wtf.st = "io" /\ iw[0].st = "err" /\ wtf'.st # "io"

\* C18: when writeToFileInternal fails inside writeToFile, the call returns
\* with one store.error emitted, isWriting false and the file lock released,
\* the first pending path is dispatched, and the file at the target path is
\* the one found when the write began: during a write the target changes
\* only in the step that makes the write succeed.
C18_WriteFailureReported ==
    [][ /\ WriteFails =>
            /\ wtf'.st = "idle" /\ wtf'.errs = 1
            /\ ~ isWriting' /\ FileLock \notin writeLocks'
            /\ files' = files
            /\ IF pendingWrites = << >>
               THEN immediates' = immediates
               ELSE /\ immediates' = Append(immediates, Head(pendingWrites))
                    /\ pendingWrites' = Tail(pendingWrites)
        /\ (wtf.st \in {"acquire", "locked", "serialized", "io"}
               /\ files'[wtf.file] # files[wtf.file])
            => iw'[0].st = "ok"
      ]_vars

\* a write has failed after an earlier one had succeeded: the error is
\* reported, the snapshot is on disk, the serializer is idle and the request
\* made during the failed write is dispatched
C18_Witness ==
    /\ wtf.st = "idle" /\ wtf.errs = 1
    /\ files[StoreFile].kind = "doc"
    /\ ~ isWriting /\ FileLock \notin writeLocks
    /\ immediates = << StoreFile >>


(***************************************************************************)
(* Properties of a load that fails                                         *)
(***************************************************************************)
\* C19: a step in which readFromFile returns with store.error emitted leaves
\* chats, messages, contacts and group metadata as they were.
C19_FailedLoadChangesNothing ==
    [][(rd.st # "idle" /\ rd'.st = "idle" /\ rd'.err) => Live' = Live]_vars


(***************************************************************************)
(* Properties of a batch with a malformed record                           *)
(***************************************************************************)
\* the well-formed chats and contacts of the batch of h are in the store
\* after the step
HoldsWellFormed(h) ==
    LET b == BatchOf(h)
    IN /\ \A i \in 1..Len(b.chats) : ~ b.chats[i].bad => b.chats[i].id \in DOMAIN chats'
       /\ \A i \in 1..Len(b.contacts) :
             ~ b.contacts[i].bad => jidNormalizedUser(b.contacts[i].id) \in DOMAIN contacts'

\* C20: the processing of a history batch never ends in the catch block and
\* leaves every well-formed chat and contact of the batch in the store; and
\* a messages.upsert or contacts.upsert event whose batch holds a malformed
\* record before a well-formed one leaves the well-formed one in the store.
C20_MalformedRecordSkipped ==
    [][ /\ \A h \in HistIds :
              (hist[h].pc = "await" /\ hist'[h].pc # "await")
                  => ~ hist[h].threw /\ HoldsWellFormed(h)
        /\ (budget' < budget /\ hist' = hist)
              => \/ "A" \in DOMAIN messages' /\ MsgHas(messages'["A"], 1)
                 \/ "C" \in DOMAIN contacts'
      ]_vars


(***************************************************************************)
(* Properties of the chat operations                                       *)
(***************************************************************************)
\* existing.unreadCount || 0
UnreadOf(chat) == IF "unreadCount" \in DOMAIN chat THEN chat.unreadCount ELSE 0

\* C21: updateChat on an existing chat with a positive unreadCount stores
\* the previous unreadCount plus the one of the update; an unreadCount that
\* is not positive is stored as it is and an absent one leaves the stored
\* one alone; every other field of the update is stored, and every field
\* the update does not carry is kept, lastUpdated, the stamp of the store,
\* aside; no other chat changes.
C21_UpdateChatMerges ==
    [][\A u \in OpsUpdates :
          (ChatsUpdate(u) /\ u.id \in DOMAIN chats) =>
             LET old == chats[u.id]
                 new == chats'[u.id]
                 given == DOMAIN u.fields
             IN /\ "unreadCount" \in given =>
                      new.unreadCount = IF u.fields.unreadCount > 0
                                        THEN UnreadOf(old) + u.fields.unreadCount
                                        ELSE u.fields.unreadCount
                /\ \A f \in given \ {"unreadCount"} : new[f] = u.fields[f]
                /\ \A f \in DOMAIN old \ (given \cup {"lastUpdated"}) :
                      f \in DOMAIN new /\ new[f] = old[f]
                /\ DOMAIN new = DOMAIN old \cup given \cup {"lastUpdated"}
                /\ DOMAIN chats' = DOMAIN chats
                /\ \A j \in DOMAIN chats \ {u.id} : chats'[j] = chats[j]
      ]_vars

\* a chat holds the sum of a set and of a later update, next to the name the
\* set gave it and the flag the update gave it
C21_Witness ==
    /\ "A" \in DOMAIN chats
    /\ DOMAIN chats["A"] = {"id", "unreadCount", "name", "archived", "createdAt", "lastUpdated"}
    /\ chats["A"].unreadCount = 4 /\ chats["A"].name = 7 /\ chats["A"].archived = 1

(***************************************************************************)
(* Properties of the pending writes                                        *)
(***************************************************************************)
IsPending(file) == \E i \in 1..Len(pendingWrites) : pendingWrites[i] = file

\* writeToFileInternal is running for the path on behalf of writeToFile
Writes(file) == wtf.st = "io" /\ wtf.file = file

\* C22: every path recorded as pending is eventually written, when the
\* writes terminate: a path in pendingWrites leads to a write of that path.
C22_PendingIsWritten == \A file \in Paths : IsPending(file) ~> Writes(file)

(***************************************************************************)
(* Properties of the counters                                              *)
(***************************************************************************)
\* no handler is between two of its steps
NoOperationRuns ==
    /\ \A h \in HistIds : hist[h] = HistIdle
    /\ upq = << >>
    /\ rd = RdIdle

\* C23: once the operations have ended, the three totals of stats are the
\* size of chats, the sum of the sizes of the per-chat message maps and the
\* size of contacts.
C23_StatsMatchStore == NoOperationRuns => stats = UpdateStatsOf(chats, messages, contacts)

(***************************************************************************)
(* Properties of upsertChat                                                *)
(***************************************************************************)
\* a step in which upsertChat is called with the chat
Upserts(chat) == ChatsSet(chat) \/ (ChatsUpsert(chat) /\ ~ isProcessingHistory)

\* the fields of the chat that the upsert does not carry are kept
UpsertKeepsFields(chat) ==
    \A f \in DOMAIN chats[chat.id] \ (DOMAIN chat.fields \cup {"lastUpdated"}) :
        f \in DOMAIN chats'[chat.id] /\ chats'[chat.id][f] = chats[chat.id][f]

\* C24: upsertChat on a chat that exists keeps the fields the upsert does
\* not carry and stores the previous unreadCount plus the upserted one.
C24_UpsertChatMerges ==
    [][\A chat \in OpsChats :
          (Upserts(chat) /\ chat.id \in DOMAIN chats) =>
             /\ UpsertKeepsFields(chat)
             /\ chats'[chat.id].unreadCount = UnreadOf(chats[chat.id]) + chat.fields.unreadCount
      ]_vars

(***************************************************************************)
(* Properties of message ingestion                                         *)
(***************************************************************************)
\* the store already holds a message of this chat with this id
Reingested(m) ==
    /\ jidNormalizedUser(m.jid) \in DOMAIN messages
    /\ MsgHas(messages[jidNormalizedUser(m.jid)], m.id)

\* after the step the chat holds one entry with this id, with this payload
HoldsLatest(m) ==
    LET jid == jidNormalizedUser(m.jid)
    IN /\ jid \in DOMAIN messages'
       /\ Cardinality({k \in 1..Len(messages'[jid]) : messages'[jid][k].id = m.id}) = 1
       /\ messages'[jid][MsgIndex(messages'[jid], m.id)].v = m.v

\* the last message of the batch with its chat and id
LastOfItsId(batch, i) ==
    \A k \in (i + 1)..Len(batch) : batch[k].id # batch[i].id \/ batch[k].jid # batch[i].jid

\* a step in which a history task merges the messages of the batch
MergesBatch(h, idx) ==
    /\ hist[h].pc \in {"idle", "backup"}
    /\ hist'[h].pc = "await"
    /\ hist'[h].batch = idx

LiveKeepsLatest ==
    \A ms \in OpsBatches, type \in {"notify", "append"} :
        (MessagesUpsert(ms, type) /\ ~ (isProcessingHistory /\ Len(ms) > BigUpsert)) =>
            \A i \in 1..Len(ms) : (Reingested(ms[i]) /\ LastOfItsId(ms, i)) => HoldsLatest(ms[i])

BulkKeepsLatest ==
    \A h \in HistIds, idx \in DOMAIN AllBatches :
        MergesBatch(h, idx) =>
            LET ms == AllBatches[idx].messages
            IN \A i \in 1..Len(ms) : (Reingested(ms[i]) /\ LastOfItsId(ms, i)) => HoldsLatest(ms[i])

\* C25: a message ingested again, by messages.upsert or by a history batch,
\* leaves one entry for its chat and id, holding the payload ingested last.
C25_ReingestKeepsLatest == [][LiveKeepsLatest /\ BulkKeepsLatest]_vars

(***************************************************************************)
(* Properties of the on-demand batches                                     *)
(***************************************************************************)
\* C26: a history batch of the on-demand type changes nothing, marked last
\* or not: the four mappings, the sync state and its start time, the backup,
\* the write serializer, the writers, the files and the history tasks are
\* left as they are.
C26_OnDemandIgnored ==
    [][\A h \in HistIds, idx \in DOMAIN AllBatches :
          (AllBatches[idx].syncType = OnDemandSyncType /\ HistStart(h, idx)) =>
             UNCHANGED << chats, messages, contacts, groupMetadata, syncVars,
                          backupData, serVars, fsVars, hist >>
      ]_vars

\* a sync begun on an empty store by the small batch is still in progress
\* after every event has been used, with the store as the batch left it
C26_Witness ==
    /\ isProcessingHistory
    /\ budget = 0
    /\ NoOperationRuns
    /\ wtf = WtfIdle
    /\ DOMAIN chats = {"B"} /\ "lastUpdated" \notin DOMAIN chats["B"]
    /\ DOMAIN contacts = {"B"}
    /\ backupData = EmptyData

(***************************************************************************)
(* Properties of messages.upsert                                           *)
(***************************************************************************)
\* every message of the batch is held by its chat after the step
IngestedInFull(ms) == \A i \in 1..Len(ms) : LastOfItsId(ms, i) => HoldsLatest(ms[i])

\* C27: while a sync is in progress a messages.upsert batch of more than
\* 100 messages changes nothing in the store and a batch of at most 100
\* messages is ingested in full; while no sync is in progress every batch is
\* ingested in full.
C27_LargeBatchDroppedWhileSyncing ==
    [][\A ms \in OpsBatches, type \in {"notify", "append"} :
          MessagesUpsert(ms, type) =>
             IF isProcessingHistory /\ Len(ms) > BigUpsert
             THEN UNCHANGED << storeVars, upq >>
             ELSE IngestedInFull(ms)
      ]_vars

\* a batch of 100 messages was ingested during a sync, after the totals
\* had been recomputed for the one message of the history batch
C27_Witness ==
    /\ isProcessingHistory
    /\ NoOperationRuns
    /\ DOMAIN messages = {"B", "C"}
    /\ stats.totalMessages = BigUpsert + 1

(***************************************************************************)
(* Properties of the chats made by a 'notify' batch                        *)
(***************************************************************************)
\* the step of processBatch that follows an addMessage: the chat of the
\* message has an entry afterwards; a chat that had none gets one with
\* unreadCount 1, and no entry that existed is changed
ContinuationMakesChat ==
    UpsertContinue =>
        LET jid == Head(upq).jid
        IN /\ DOMAIN chats' = DOMAIN chats \cup {jid}
           /\ \A j \in DOMAIN chats : chats'[j] = chats[j]
           /\ jid \notin DOMAIN chats => chats'[jid].unreadCount = 1

\* the messages.upsert step itself changes no chat; a 'notify' batch that is
\* ingested queues one continuation for every message, an 'append' batch none
BatchQueuesChats ==
    \A ms \in OpsBatches, type \in {"notify", "append"} :
        MessagesUpsert(ms, type) =>
            /\ chats' = chats
            /\ IF type = "notify" /\ ~ (isProcessingHistory /\ Len(ms) > BigUpsert)
               THEN /\ Len(upq') = Len(upq) + Len(ms)
                    /\ \A i \in 1..Len(ms) :
                          upq'[Len(upq) + i].jid = jidNormalizedUser(ms[i].jid)
               ELSE upq' = upq

\* C28: after a 'notify' batch every chat with a message of the batch has an
\* entry; a chat that had none is created once, with unreadCount 1, however
\* many messages of the batch are its own; the entries that existed are not
\* changed; an 'append' batch creates no chat.
C28_NotifyCreatesChatOnce == [][ContinuationMakesChat /\ BatchQueuesChats]_vars

\* the batch with two messages of chat C and one of chat A has been
\* ingested as 'notify' on a store that held chat A
C28_Witness ==
    /\ upq = << >>
    /\ DOMAIN chats = {"A", "C"}
    /\ chats["C"].unreadCount = 1 /\ chats["C"].conversationTimestamp = 1
    /\ chats["A"].unreadCount = 3 /\ "conversationTimestamp" \notin DOMAIN chats["A"]
    /\ "C" \in DOMAIN messages /\ Len(messages["C"]) = 2
    /\ stats.totalChats = 2

(***************************************************************************)
(* Properties of chats.delete                                              *)
(***************************************************************************)
\* the key under which addMessage files the messages of the chat
MessagesKey(chatId) == jidNormalizedUser(chatId)

\* C29: after the deletion of a chat the store holds, its id is a key
\* neither of chats nor of messages, the messages of the chat are gone, and
\* every other chat and the messages of every other chat are as before.
C29_DeletePurgesChat ==
    [][\A chatId \in {"A", "A:1"} :
          (ChatsDelete({chatId}) /\ chatId \in DOMAIN chats) =>
             /\ chatId \notin DOMAIN chats'
             /\ chatId \notin DOMAIN messages'
             /\ MessagesKey(chatId) \notin DOMAIN messages'
             /\ \A j \in DOMAIN chats \ {chatId} : j \in DOMAIN chats' /\ chats'[j] = chats[j]
             /\ \A j \in DOMAIN messages \ {chatId, MessagesKey(chatId)} :
                   j \in DOMAIN messages' /\ messages'[j] = messages[j]
      ]_vars

(***************************************************************************)
(* Termination of the reads and the writes                                 *)
(***************************************************************************)
\* C30: every readFromFile and every writeToFile that has started ends, and
\* when neither is in progress the 'file' lock is free and isWriting is
\* false.
C30_ReadsAndWritesEnd ==
    /\ (rd # RdIdle) ~> (rd = RdIdle)
    /\ (wtf.st # "idle") ~> (wtf.st = "idle")
    /\ []((rd = RdIdle /\ wtf.st = "idle") => (FileLock \notin writeLocks /\ ~ isWriting))

(***************************************************************************)
(* The snapshot a write serializes                                         *)
(***************************************************************************)
\* C31: the snapshot writeToFile has serialized holds at least one chat,
\* one message map or one contact.
C31_SnapshotHoldsData ==
    wtf.st \in {"serialized", "io"} =>
        \/ wtf.data.chats # << >>
        \/ DOMAIN wtf.data.messages # {}
        \/ wtf.data.contacts # << >>

(***************************************************************************)
(* The write of cleanup                                                    *)
(***************************************************************************)
\* the store file holds the store as it is, and no write is in flight,
\* recorded as pending or dispatched with setImmediate
CleanupSettled ==
    /\ files[StoreFile] = DocFile(serializeStoreData)
    /\ ~ isWriting
    /\ wtf.st = "idle"
    /\ pendingWrites = << >>
    /\ immediates = << >>

\* C32: cleanup called on a store that holds data while a write is in flight
\* awaits a writeToFile that returns without an await of its own, so it
\* resolves in the task of the call: in the state that task leaves, the
\* store file holds the current store and no write is pending or in flight.
C32_CleanupFlushes == [][(Cleanup /\ hasValidData /\ isWriting) => CleanupSettled']_vars

(***************************************************************************)
(* History batches processed as interleaved tasks                          *)
(***************************************************************************)
\* the backup of a sync that began with data has not been cleared
BackupHeld == hasInitialData => backupData # EmptyData

\* a continuation of the task of a history batch changes the chats, the
\* messages or the contacts
HistMutates(h) ==
    /\ \/ HistBackupDone(h)
       \/ HistMessages(h)
       \/ HistAfterAll(h)
       \/ HistCatch(h)
       \/ HistCaught(h)
    /\ << chats, messages, contacts >>' # << chats, messages, contacts >>

\* C33: a history batch mutates the store only while the controller is
\* Syncing and the backup of the sync is held: in its first step the sync is
\* marked as started, and every later step that changes the store is taken
\* with isProcessingHistory true and the backup not yet cleared.
C33_MutatesOnlyWhileSyncing ==
    [][\A h \in HistIds :
          /\ (\E idx \in DOMAIN AllBatches : HistStart(h, idx))
                /\ << chats, messages, contacts >>' # << chats, messages, contacts >>
                => isProcessingHistory'
          /\ HistMutates(h) => (isProcessingHistory /\ BackupHeld)
      ]_vars

====
